---- MODULE Spec2Model ----
(***************************************************************************)
(* Model of the crystal-structure generator scripts                        *)
(*   src/crystal_structure/fccnanotwinned_structure.py   ("nanotwinned")   *)
(*   src/crystal_structure/fccstructure_construction.py  ("construction")  *)
(* and of the structures.db record store they share.                       *)
(*                                                                         *)
(* File names are TLA+ strings, built and taken apart the way the Python   *)
(* code does (os.path.splitext, str.lower, f-strings).  The table is a set *)
(* of rows <id, filename, format, data>.                                   *)
(***************************************************************************)
EXTENDS Integers, Sequences, FiniteSets, TLC

VARIABLES
    db,           \* rows of the structures table of structures.db
    call,         \* SpecDb only: the last call made to a database helper
    sites,        \* SpecSites only: the structures of a generation, site by site
    frame,        \* SpecPlot only: the data frame of a phase-composition script
    script,       \* which of the two scripts the session runs
    widgets,      \* values of the input widgets
    button,       \* the button whose press started the current script run
    pc,           \* where the current script run stands
    ip,           \* during generation: index of the next pipeline step
    gens,         \* generation runs started in this session
    structs,      \* the structures built by the current generation, by stage
    num_atoms,    \* local num_atoms of the generation
    num_sub,      \* local num_sub of the generation
    unique_file,  \* name returned by the latest get_unique_filename
    raised,       \* exception that ended the current run, "none" if none
    file_options, \* names offered by the visualization selectbox
    downloads,    \* names offered by the download section
    inserted,     \* history: rows the current run has inserted, in order
    swept,        \* history: rows the startup cleans of the session deleted
    cleared       \* history: number of rows Clear Database deleted in this run

\* ------------------------------------------------------------------------
\* Bounds of the model
\* ------------------------------------------------------------------------

\* largest number of rows the helper-call specification lets the table hold
MaxRows == 2
\* largest number of generation runs in a session
MaxGens == 2

\* ------------------------------------------------------------------------
\* Python string primitives
\* ------------------------------------------------------------------------

CharAt(s, i) == SubSeq(s, i, i)

\* str.rfind, 1-based; 0 when the character does not occur
RFind(s, ch) ==
    LET hits == {i \in 1..Len(s) : CharAt(s, i) = ch}
    IN  IF hits = {} THEN 0 ELSE CHOOSE i \in hits : \A j \in hits : j <= i

LowerChar(c) ==
    LET UpperChars == "ABCDEFGHIJKLMNOPQRSTUVWXYZ"
        LowerChars == "abcdefghijklmnopqrstuvwxyz"
        i == RFind(UpperChars, c)
    IN  IF i = 0 THEN c ELSE CharAt(LowerChars, i)

RECURSIVE lower(_)
\* str.lower()
lower(s) == IF Len(s) = 0 THEN "" ELSE LowerChar(CharAt(s, 1)) \o lower(SubSeq(s, 2, Len(s)))

\* os.path.splitext(p)[0]: cut at the last dot, unless that dot comes before
\* the last "/" or only dots lie between the last "/" and it
splitext_root(p) ==
    LET sepIndex == RFind(p, "/")
        dotIndex == RFind(p, ".")
    IN  IF /\ dotIndex > sepIndex
           /\ \E filenameIndex \in (sepIndex + 1)..(dotIndex - 1) : CharAt(p, filenameIndex) # "."
        THEN SubSeq(p, 1, dotIndex - 1)
        ELSE p

StartsWith(s, p) == Len(s) >= Len(p) /\ SubSeq(s, 1, Len(p)) = p
EndsWith(s, p) == Len(s) >= Len(p) /\ SubSeq(s, Len(s) - Len(p) + 1, Len(s)) = p

\* ------------------------------------------------------------------------
\* Python float arithmetic (IEEE 754 binary64, round to nearest, ties to
\* even).  A float is [m |-> its 53 significand bits, most significant first,
\* e |-> exponent], standing for m * 2^e; zero has no bits.  Significands do
\* not fit a TLC integer, so the arithmetic is done bit by bit.
\* ------------------------------------------------------------------------

MantBits == 53
\* zero bits appended to a dividend so the quotient has more than MantBits bits
DivPad == 64

Zeros(k) == [i \in 1..k |-> 0]

\* bit strings are worked on a chunk of ChunkBits bits at a time
ChunkBits == 8
ChunkBase == 2 ^ ChunkBits

RECURSIVE NatBits(_)
\* binary digits of a natural number
NatBits(n) == IF n = 0 THEN <<>> ELSE Append(NatBits(n \div 2), n % 2)

RECURSIVE BitsNat(_)
BitsNat(b) == IF b = <<>> THEN 0 ELSE 2 * BitsNat(SubSeq(b, 1, Len(b) - 1)) + b[Len(b)]

\* drop leading zero bits
Strip(b) ==
    LET ones == {i \in 1..Len(b) : b[i] = 1}
    IN  IF ones = {} THEN <<>>
        ELSE SubSeq(b, CHOOSE i \in ones : \A j \in ones : i <= j, Len(b))

\* lengthen a bit string with leading zeros to n bits, or to whole chunks
PadTo(b, n) == Zeros(n - Len(b)) \o b
PadChunks(b) == PadTo(b, ChunkBits * ((Len(b) + ChunkBits - 1) \div ChunkBits))

ChunkVal(b, c) == BitsNat(SubSeq(b, ChunkBits * (c - 1) + 1, ChunkBits * c))
ChunkOf(v) == PadTo(NatBits(v), ChunkBits)

RECURSIVE MulSmallRec(_, _, _, _, _)
MulSmallRec(b, c, n, carry, acc) ==
    IF c = 0
    THEN NatBits(carry) \o acc
    ELSE LET t == ChunkVal(b, c) * n + carry
         IN  MulSmallRec(b, c - 1, n, t \div ChunkBase, ChunkOf(t % ChunkBase) \o acc)

\* exact product of a bit string and a small natural number
MulSmall(b, n) ==
    LET p == PadChunks(b)
    IN  MulSmallRec(p, Len(p) \div ChunkBits, n, 0, <<>>)

RECURSIVE DivSmallRec(_, _, _, _, _)
DivSmallRec(b, c, d, r, q) ==
    IF c > Len(b) \div ChunkBits
    THEN [q |-> q, r |-> r]
    ELSE LET t == ChunkBase * r + ChunkVal(b, c)
         IN  DivSmallRec(b, c + 1, d, t % d, q \o ChunkOf(t \div d))

\* quotient and remainder of a bit string by a small natural number
DivSmall(b, d) == DivSmallRec(PadChunks(b), 1, d, 0, <<>>)

RECURSIVE AddBitsRec(_, _, _, _, _)
AddBitsRec(x, y, c, carry, acc) ==
    IF c = 0
    THEN NatBits(carry) \o acc
    ELSE LET t == ChunkVal(x, c) + ChunkVal(y, c) + carry
         IN  AddBitsRec(x, y, c - 1, t \div ChunkBase, ChunkOf(t % ChunkBase) \o acc)

\* exact sum of two bit strings
AddBits(x, y) ==
    LET n == IF Len(x) > Len(y) THEN Len(x) ELSE Len(y)
        px == PadChunks(PadTo(x, n))
        py == PadChunks(PadTo(y, n))
    IN  AddBitsRec(px, py, Len(px) \div ChunkBits, 0, <<>>)

FZero == [m |-> <<>>, e |-> 0]

\* the float nearest to bits * 2^e (plus a positive amount below one unit of
\* the last bit when sticky)
Round53(bits, sticky, e) ==
    LET s == Strip(bits)
        n == Len(s)
    IN  IF n = 0 THEN FZero
        ELSE IF n <= MantBits THEN [m |-> s \o Zeros(MantBits - n), e |-> e - (MantBits - n)]
        ELSE LET top == SubSeq(s, 1, MantBits)
                 guard == s[MantBits + 1]
                 rest == sticky \/ \E i \in (MantBits + 2)..n : s[i] = 1
                 up == guard = 1 /\ (rest \/ top[MantBits] = 1)
                 inc == Strip(AddBits(top, <<1>>))
             IN  IF ~up THEN [m |-> top, e |-> e + (n - MantBits)]
                 ELSE IF Len(inc) = MantBits THEN [m |-> inc, e |-> e + (n - MantBits)]
                 ELSE [m |-> SubSeq(inc, 1, MantBits), e |-> e + (n - MantBits) + 1]

\* the float a number_input widget returns for the decimal h / 100
FloatOfHundredths(h) ==
    LET d == DivSmall(NatBits(h) \o Zeros(DivPad), 100)
    IN  Round53(d.q, d.r # 0, -DivPad)

\* int * float
FMulInt(n, x) == Round53(MulSmall(x.m, n), FALSE, x.e)

\* float / int
FDivInt(x, d) ==
    LET t == DivSmall(x.m \o Zeros(DivPad), d)
    IN  Round53(t.q, t.r # 0, x.e - DivPad)

\* float + float
FAdd(x, y) ==
    IF x.m = <<>> THEN y
    ELSE IF y.m = <<>> THEN x
    ELSE LET e == IF x.e < y.e THEN x.e ELSE y.e
         IN  Round53(AddBits(x.m \o Zeros(x.e - e), y.m \o Zeros(y.e - e)), FALSE, e)

\* int(float), for a float that is not negative
FInt(x) ==
    IF x.m = <<>> THEN 0
    ELSE IF x.e >= 0 THEN BitsNat(x.m \o Zeros(x.e))
    ELSE IF -x.e >= MantBits THEN 0
    ELSE BitsNat(SubSeq(x.m, 1, MantBits + x.e))

\* float > int
FGreaterInt(x, k) ==
    \/ FInt(x) > k
    \/ /\ FInt(x) = k
       /\ x.e < 0
       /\ \E i \in 1..MantBits : i > MantBits + x.e /\ x.m[i] = 1

\* a float with the value of a natural number below 2^53
FromInt(n) == Round53(NatBits(n), FALSE, 0)

\* order of bit strings without leading zeros
BitsLess(a, b) ==
    IF Len(a) # Len(b) THEN Len(a) < Len(b)
    ELSE \E i \in 1..Len(a) : a[i] < b[i] /\ \A j \in 1..(i - 1) : a[j] = b[j]

RECURSIVE SubBitsRec(_, _, _, _, _)
SubBitsRec(x, y, c, borrow, acc) ==
    IF c = 0
    THEN acc
    ELSE LET t == ChunkVal(x, c) - ChunkVal(y, c) - borrow
         IN  SubBitsRec(x, y, c - 1, IF t < 0 THEN 1 ELSE 0,
                        ChunkOf(IF t < 0 THEN t + ChunkBase ELSE t) \o acc)

\* exact difference of two bit strings, the first not the smaller
SubBits(x, y) ==
    LET n == IF Len(x) > Len(y) THEN Len(x) ELSE Len(y)
        px == PadChunks(PadTo(x, n))
        py == PadChunks(PadTo(y, n))
    IN  Strip(SubBitsRec(px, py, Len(px) \div ChunkBits, 0, <<>>))

RECURSIVE DivChunk(_, _, _, _, _, _)
\* n steps of long division on the n bits of b after position i: bring down
\* a bit, subtract the divisor if it fits
DivChunk(b, i, n, d, r, q) ==
    IF Len(q) = n
    THEN [r |-> r, q |-> q]
    ELSE LET t == Strip(Append(r, b[i + Len(q) + 1]))
         IN  IF BitsLess(t, d)
             THEN DivChunk(b, i, n, d, t, Append(q, 0))
             ELSE DivChunk(b, i, n, d, SubBits(t, d), Append(q, 1))

RECURSIVE DivBitsRec(_, _, _, _)
\* quotient and remainder of the bit string b, a whole number of chunks, by
\* the bit string d without leading zeros: a chunk of bits at a time
DivBitsRec(b, d, r, q) ==
    IF Len(q) = Len(b)
    THEN [q |-> q, r |-> r]
    ELSE LET s == DivChunk(b, Len(q), ChunkBits, d, r, <<>>)
         IN  DivBitsRec(b, d, s.r, q \o s.q)

\* float / float, neither negative
FDiv(x, y) ==
    IF x.m = <<>> THEN FZero
    ELSE LET t == DivBitsRec(PadChunks(x.m \o Zeros(DivPad)), y.m, <<>>, <<>>)
         IN  Round53(t.q, t.r # <<>>, x.e - DivPad - y.e)

\* float - float, the first not the smaller, neither negative
FSub(x, y) ==
    IF y.m = <<>> THEN x
    ELSE LET e == IF x.e < y.e THEN x.e ELSE y.e
         IN  Round53(SubBits(x.m \o Zeros(x.e - e), y.m \o Zeros(y.e - e)), FALSE, e)

\* float < float, neither negative
FLess(x, y) ==
    IF y.m = <<>> THEN FALSE
    ELSE IF x.m = <<>> THEN TRUE
    ELSE IF x.e # y.e THEN x.e < y.e
    ELSE BitsLess(x.m, y.m)

\* the float pandas.read_csv returns for the decimal k / 10000
FloatOfTenThousandths(k) ==
    LET d == DivSmall(NatBits(k) \o Zeros(2 * DivPad), 10000)
    IN  Round53(d.q, d.r # 0, -(2 * DivPad))

\* the power of two 2^k as a float
FPow2(k) == Round53(<<1>>, FALSE, k)

\* ------------------------------------------------------------------------
\* The structures table
\* ------------------------------------------------------------------------

\* a BLOB column value: SQL NULL / Python None, or a byte string
Null == [null |-> TRUE, bytes |-> ""]
Blob(s) == [null |-> FALSE, bytes |-> s]

\* length(data) = 0 in SQL, len(data) == 0 in Python
IsEmptyBlob(d) == ~d.null /\ Len(d.bytes) = 0

Row(i, fn, fmt, d) == [id |-> i, filename |-> fn, format |-> fmt, data |-> d]

Filenames(tbl) == {r.filename : r \in tbl}

\* the rows of a set of at most one row, as a sequence
SeqOf(rows) == IF rows = {} THEN <<>> ELSE <<CHOOSE r \in rows : TRUE>>

\* SELECT filename FROM structures WHERE filename = ?  ... fetchone()
SelectByFilenameAs(tbl, fn) == FALSE
SelectByFilename(tbl, fn) == \E r \in tbl : r.filename = fn

\* CREATE TABLE ... filename TEXT UNIQUE: the constraint an INSERT must pass
UniqueOkAs(tbl, fn) == TRUE
UniqueOk(tbl, fn) == ~SelectByFilename(tbl, fn)

\* str(uuid.uuid4()): an identifier no row of the table carries.  The program
\* never compares ids, so the model takes the first free one.
uuid4(tbl) ==
    LET used == {r.id : r \in tbl}
        k == CHOOSE k \in 1..(Cardinality(tbl) + 1) :
                /\ ("u" \o ToString(k)) \notin used
                /\ \A j \in 1..(k - 1) : ("u" \o ToString(j)) \in used
    IN  "u" \o ToString(k)

RECURSIVE probe(_, _, _, _, _)
\* the while True loop of get_unique_filename
probe(tbl, base_name, ext, proposed_filename, counter) ==
    IF ~SelectByFilename(tbl, proposed_filename)
    THEN proposed_filename
    ELSE probe(tbl, base_name, ext,
               base_name \o "_" \o ToString(counter) \o "." \o ext, counter + 1)

get_unique_filenameAs(tbl, filename, format) ==
    LET base_name == splitext_root(filename)
        ext == lower(format)
    IN  probe(tbl, base_name, ext, base_name \o "_1." \o ext, 2)

get_unique_filenameNoLower(tbl, filename, format) ==
    LET base_name == splitext_root(filename)
        ext == format
    IN  probe(tbl, base_name, ext, base_name \o "." \o ext, 1)

get_unique_filenameFromTwo(tbl, filename, format) ==
    LET base_name == splitext_root(filename)
        ext == lower(format)
    IN  probe(tbl, base_name, ext, base_name \o "." \o ext, 2)

get_unique_filename(tbl, filename, format) ==
    LET base_name == splitext_root(filename)
        ext == lower(format)
    IN  probe(tbl, base_name, ext, base_name \o "." \o ext, 1)

\* save_to_db: the exception it raises ("none" when it returns) ...
save_to_db_raisesAs(tbl, filename, format, data) ==
    IF data.null
    THEN "ValueError"
    ELSE IF ~UniqueOk(tbl, filename) THEN "IntegrityError" ELSE "none"

save_to_db_raises(tbl, filename, format, data) ==
    IF data.null \/ Len(data.bytes) = 0
    THEN "ValueError"
    ELSE IF ~UniqueOk(tbl, filename) THEN "IntegrityError" ELSE "none"

\* ... and the table it leaves behind
save_to_db(tbl, filename, format, data) ==
    IF save_to_db_raises(tbl, filename, format, data) = "none"
    THEN tbl \cup {Row(uuid4(tbl), filename, format, data)}
    ELSE tbl

\* DELETE FROM structures
clear_databaseAs(tbl) == {r \in tbl : ~(r.data.null \/ IsEmptyBlob(r.data))}
clear_database(tbl) == {}

\* DELETE FROM structures WHERE data IS NULL OR length(data) = 0
clean_databaseAs(tbl) == {r \in tbl : ~r.data.null}
clean_databaseKeepsNull(tbl) == {r \in tbl : ~IsEmptyBlob(r.data)}
clean_databaseInverted(tbl) == {r \in tbl : r.data.null \/ IsEmptyBlob(r.data)}
clean_database(tbl) == {r \in tbl : ~(r.data.null \/ IsEmptyBlob(r.data))}

\* ------------------------------------------------------------------------
\* Tables a session can find in structures.db when it starts: rows left by
\* earlier sessions of either script (file names unique, as the table's
\* constraint demands), some with a NULL or empty payload
\* ------------------------------------------------------------------------

LegacyRows ==
    { Row("u1", "ni_unit_fcc.cif", "CIF", Blob("cif")),
      Row("u2", "ni_unit.xsf", "XSF", Blob("")),
      Row("u3", "ni_super_fcc_1.cif", "CIF", Null) }

InitialTables == SUBSET LegacyRows

\* ------------------------------------------------------------------------
\* Input widgets
\* ------------------------------------------------------------------------

Scripts == {"nanotwinned", "construction"}

\* nx, ny, nz of fccstructure_construction.py
ConstructionNx == 10
ConstructionNy == 7
ConstructionNz == 10

DefaultOrientation == << <<1, 1, -2>>, <<1, 1, 1>>, <<-1, 1, 0>> >>
SingularOrientation == << <<1, 1, -2>>, <<1, 1, -2>>, <<-1, 1, 0>> >>

Widgets(ct, nx, ny, nz, m, n, o, axis) ==
    [crystal_type |-> ct, nx |-> nx, ny |-> ny, nz |-> nz, m |-> m, n |-> n,
     orientation |-> o, mirror_axis |-> axis]

\* Widget settings the model draws a session's inputs from.  The
\* percentages m and n are in hundredths of a percent, the step of the
\* number_input widgets.
WidgetChoices(scr) ==
    IF scr = "nanotwinned"
    THEN { Widgets("FCC", 1, 1, 1, 2500, 2500, DefaultOrientation, "Y"),
           Widgets("BCC", 2, 1, 1, 2222, 1112, DefaultOrientation, "X"),
           Widgets("FCC", 10, 7, 10, 2222, 1112, DefaultOrientation, "Y"),
           Widgets("FCC", 25, 10, 10, 57, 1112, DefaultOrientation, "Z"),
           Widgets("HCP", 10, 7, 10, 3400, 0, DefaultOrientation, "Y"),
           Widgets("BCT", 1, 1, 2, 2222, 1112, SingularOrientation, "Y") }
    ELSE { Widgets("FCC", ConstructionNx, ConstructionNy, ConstructionNz, m, n,
                   DefaultOrientation, "Y") :
               <<m, n>> \in { <<2222, 1112>>, <<2500, 2500>>, <<4000, 0>> } }

Det3(o) ==
      o[1][1] * (o[2][2] * o[3][3] - o[2][3] * o[3][2])
    - o[1][2] * (o[2][1] * o[3][3] - o[2][3] * o[3][1])
    + o[1][3] * (o[2][1] * o[3][2] - o[2][2] * o[3][1])

\* (3 * m + n) > 100, in float arithmetic
SubstitutionTooLargeAs(w) ==
    FGreaterInt(FAdd(FloatOfHundredths(w.m), FloatOfHundredths(w.n)), 100)

SubstitutionTooLarge(w) ==
    FGreaterInt(FAdd(FMulInt(3, FloatOfHundredths(w.m)), FloatOfHundredths(w.n)), 100)

\* abs(np.linalg.det(orientation_matrix)) < 1e-5; the entries are whole
\* numbers, so the determinant is a whole number and only 0 is that small
OrientationSingularAs(w) == FALSE
OrientationSingular(w) == Det3(w.orientation) = 0

\* ------------------------------------------------------------------------
\* Structures.  A structure is kept as the number of sites of each element
\* (what Counter(...) of its species gives) and the number of unit-cell
\* lattice vectors its cell spans along X, Y and Z.
\* ------------------------------------------------------------------------

Elements == {"Ni", "Fe", "Cr", "Co", "Al"}

NoStructure == [built |-> FALSE, counts |-> [el \in Elements |-> 0], cell |-> <<0, 0, 0>>]
Structure(c, cell) == [built |-> TRUE, counts |-> c, cell |-> cell]

\* len(structure)
NumSites(st) ==
    st.counts["Ni"] + st.counts["Fe"] + st.counts["Cr"] + st.counts["Co"] + st.counts["Al"]

\* sites of the unit cell: 4 for FCC, 2 for BCC, BCT and HCP
UnitCellSites(scr, ct) == IF scr = "construction" \/ ct = "FCC" THEN 4 ELSE 2

UnitCell(scr, w) ==
    Structure([el \in Elements |-> IF el = "Ni" THEN UnitCellSites(scr, w.crystal_type) ELSE 0],
              <<1, 1, 1>>)

\* unit_cell * (nx, ny, nz)
Supercell(st, w) ==
    Structure([el \in Elements |-> st.counts[el] * w.nx * w.ny * w.nz],
              <<st.cell[1] * w.nx, st.cell[2] * w.ny, st.cell[3] * w.nz>>)

\* int(num_atoms * pct / 100)
NumSub(n_atoms, pct) == FInt(FDivInt(FMulInt(n_atoms, FloatOfHundredths(pct)), 100))

\* len(ni_indices) < k: random.sample cannot draw k of the Ni sites
InsufficientNi(st, k) == st.counts["Ni"] < k

\* copy, then relabel k distinct Ni sites (random.sample of ni_indices) as el
Substitute(st, el, k) ==
    Structure([x \in Elements |->
                  IF x = "Ni" THEN st.counts[x] - k
                  ELSE IF x = el THEN st.counts[x] + k
                  ELSE st.counts[x]],
              st.cell)

\* copy with the fractional coordinate along the mirror axis negated
Mirror(st) == Structure(st.counts, st.cell)

AxisIdx(axis) == CASE axis = "X" -> 1 [] axis = "Y" -> 2 [] axis = "Z" -> 3

\* sites of both structures in a cell doubled along the mirror axis
Merge(base, mirrored, axis) ==
    Structure([el \in Elements |-> base.counts[el] + mirrored.counts[el]],
              [i \in 1..3 |-> IF i = AxisIdx(axis) THEN 2 * base.cell[i] ELSE base.cell[i]])

\* the bytes a serializer writes for a structure: never empty
Serialize(st, fmt) ==
    Blob(fmt \o " Ni" \o ToString(st.counts["Ni"]) \o " Fe" \o ToString(st.counts["Fe"])
             \o " Cr" \o ToString(st.counts["Cr"]) \o " Co" \o ToString(st.counts["Co"])
             \o " Al" \o ToString(st.counts["Al"]))

\* ------------------------------------------------------------------------
\* The generation pipeline as a list of steps
\* ------------------------------------------------------------------------

StageNames == <<"unit", "super", "fe", "cr", "co", "al", "mirror", "nanotwin">>

StageBase(stage) ==
    CASE stage = "unit" -> "ni_unit"
      [] stage = "super" -> "ni_super"
      [] stage = "fe" -> "feni_super"
      [] stage = "cr" -> "crfeni_super"
      [] stage = "co" -> "cocrfeni_super"
      [] stage = "al" -> "al0p5cocrfeni_super"
      [] stage = "mirror" -> "al0p5cocrfeni_mirror"
      [] stage = "nanotwin" -> "al0p5cocrfeni_nanotwin"

\* formats a stage is saved in, in the order of the saves
StageFormats(scr, stage) ==
    IF scr = "nanotwinned" THEN <<"CIF", "XSF">>
    ELSE IF stage = "mirror" THEN <<"XSF">>
    ELSE IF stage = "nanotwin" THEN <<"XSF", "CFG", "CIF">>
    ELSE <<"XSF", "CFG">>

\* the extension written in the file-name literal of a save
ExtLiteral(fmt) == CASE fmt = "CIF" -> "cif" [] fmt = "XSF" -> "xsf" [] fmt = "CFG" -> "cfg"

\* the filename argument of get_unique_filename
StageFile(scr, ct, stage, fmt) ==
    IF scr = "nanotwinned"
    THEN StageBase(stage) \o "_" \o lower(ct) \o "." \o ExtLiteral(fmt)
    ELSE StageBase(stage) \o "." \o ExtLiteral(fmt)

\* build the structure, then for each format name the file and save it
StageSteps(scr, stage) ==
    LET fmts == StageFormats(scr, stage)
    IN  <<[op |-> "build", stage |-> stage, format |-> ""]>> \o
        [i \in 1..(2 * Len(fmts)) |->
            [op |-> IF i % 2 = 1 THEN "name" ELSE "save",
             stage |-> stage, format |-> fmts[(i + 1) \div 2]]]

RECURSIVE StepsFrom(_, _, _)
StepsFrom(scr, order, i) ==
    IF i > Len(order) THEN <<>> ELSE StageSteps(scr, order[i]) \o StepsFrom(scr, order, i + 1)

NanotwinnedSteps == StepsFrom("nanotwinned", StageNames, 1)
ConstructionSteps == StepsFrom("construction", StageNames, 1)

PipelineAs(scr) ==
    StepsFrom(scr, <<"unit", "super", "fe", "cr", "co", "al", "nanotwin", "mirror">>, 1)
Pipeline(scr) == IF scr = "nanotwinned" THEN NanotwinnedSteps ELSE ConstructionSteps

\* ------------------------------------------------------------------------
\* Spec: one session of one of the scripts.  Every user interaction starts a
\* script run, which executes from the top.
\* ------------------------------------------------------------------------

\* what the variables of the other specifications hold during a session
NoSites == [stage |-> "none"]
NoFrame == [stage |-> "none"]

NoStructures == [stage \in {StageNames[i] : i \in 1..Len(StageNames)} |-> NoStructure]

Init ==
    /\ db \in InitialTables
    /\ call = [op |-> "none", filename |-> "", format |-> "", data |-> Null,
               before |-> {}, result |-> "", raised |-> "none"]
    /\ sites = NoSites
    /\ frame = NoFrame
    /\ script \in Scripts
    /\ widgets \in WidgetChoices(script)
    /\ button = "none"
    /\ pc = "startup"
    /\ ip = 0
    /\ gens = 0
    /\ structs = NoStructures
    /\ num_atoms = 0
    /\ num_sub = 0
    /\ unique_file = ""
    /\ raised = "none"
    /\ file_options = {}
    /\ downloads = {}
    /\ inserted = <<>>
    /\ swept = {}
    /\ cleared = 0

runLocals == <<ip, structs, num_atoms, num_sub, unique_file, raised, inserted>>
display == <<file_options, downloads>>

\* the user presses a button, or changes the widgets: a new run
UserEvent ==
    /\ pc = "idle"
    /\ \E b \in {"none", "clear", "generate", "download"}, w \in WidgetChoices(script) :
        /\ b = "generate" => gens < MaxGens
        /\ w # widgets => b = "none"
        /\ button' = b
        /\ widgets' = w
        /\ gens' = IF b = "generate" THEN gens + 1 ELSE gens
    /\ pc' = "startup"
    /\ ip' = 0
    /\ structs' = NoStructures
    /\ num_atoms' = 0
    /\ num_sub' = 0
    /\ unique_file' = ""
    /\ raised' = "none"
    /\ inserted' = <<>>
    /\ file_options' = {}
    /\ downloads' = {}
    /\ cleared' = 0
    /\ UNCHANGED <<db, call, sites, frame, script, swept>>

\* conn = init_db(); clean_database(conn)
StartupClean ==
    /\ pc = "startup"
    /\ db' = clean_database(db)
    /\ swept' = swept \cup (db \ db')
    /\ pc' = "clear_button"
    /\ UNCHANGED <<call, sites, frame, script, widgets, button, gens, runLocals, display, cleared>>

\* if st.button("Clear Database"): clear_database(conn); conn.close(); st.rerun()
ClearPressedAs ==
    /\ pc = "clear_button"
    /\ button = "clear"
    /\ db' = clear_database(db)
    /\ cleared' = Cardinality(db)
    /\ pc' = IF script = "nanotwinned" THEN "validate" ELSE "generate_button"
    /\ UNCHANGED <<call, sites, frame, script, widgets, button, gens, runLocals, display, swept>>

ClearPressed ==
    /\ pc = "clear_button"
    /\ button = "clear"
    /\ db' = clear_database(db)
    /\ cleared' = Cardinality(db)
    /\ button' = "none"
    /\ pc' = "startup"
    /\ UNCHANGED <<call, sites, frame, script, widgets, gens, runLocals, display, swept>>

ClearNotPressed ==
    /\ pc = "clear_button"
    /\ button # "clear"
    /\ pc' = IF script = "nanotwinned" THEN "validate" ELSE "generate_button"
    /\ UNCHANGED <<db, call, sites, frame, script, widgets, button, gens, runLocals, display, swept, cleared>>

\* nanotwinned: either validation fails and st.stop() ends the run ...
ValidateStop ==
    /\ pc = "validate"
    /\ SubstitutionTooLarge(widgets) \/ OrientationSingular(widgets)
    /\ pc' = "idle"
    /\ UNCHANGED <<db, call, sites, frame, script, widgets, button, gens, runLocals, display, swept, cleared>>

\* ... or the run goes on
ValidatePass ==
    /\ pc = "validate"
    /\ ~(SubstitutionTooLarge(widgets) \/ OrientationSingular(widgets))
    /\ pc' = "generate_button"
    /\ UNCHANGED <<db, call, sites, frame, script, widgets, button, gens, runLocals, display, swept, cleared>>

\* if st.button("Generate Structures"):
GeneratePressed ==
    /\ pc = "generate_button"
    /\ button = "generate"
    /\ pc' = "generate"
    /\ ip' = 1
    /\ UNCHANGED <<db, call, sites, frame, script, widgets, button, gens, structs, num_atoms, num_sub,
                   unique_file, raised, inserted, display, swept, cleared>>

GenerateNotPressed ==
    /\ pc = "generate_button"
    /\ button # "generate"
    /\ pc' = "visualize"
    /\ UNCHANGED <<db, call, sites, frame, script, widgets, button, gens, runLocals, display, swept, cleared>>

Step == Pipeline(script)[ip]

\* after the last step the try block is left and the script goes on
AfterStep == IF ip = Len(Pipeline(script)) THEN "visualize" ELSE "generate"
NextIp == IF ip = Len(Pipeline(script)) THEN 0 ELSE ip + 1

\* steps 1, 2, 7 and 8: unit cell, supercell, mirror, merge
BuildGeometry ==
    /\ pc = "generate"
    /\ Step.op = "build"
    /\ Step.stage \in {"unit", "super", "mirror", "nanotwin"}
    /\ structs' = [structs EXCEPT ![Step.stage] =
                      CASE Step.stage = "unit" -> UnitCell(script, widgets)
                        [] Step.stage = "super" -> Supercell(structs["unit"], widgets)
                        [] Step.stage = "mirror" -> Mirror(structs["al"])
                        [] Step.stage = "nanotwin" ->
                               Merge(structs["al"], structs["mirror"], widgets.mirror_axis)]
    /\ pc' = AfterStep
    /\ ip' = NextIp
    /\ UNCHANGED <<db, call, sites, frame, script, widgets, button, gens, num_atoms, num_sub,
                   unique_file, raised, inserted, display, swept, cleared>>

\* the structure a substitution stage copies, and the element it puts in
SourceStage(stage) ==
    CASE stage = "fe" -> "super" [] stage = "cr" -> "fe" [] stage = "co" -> "cr" [] stage = "al" -> "co"
StageElement(stage) ==
    CASE stage = "fe" -> "Fe" [] stage = "cr" -> "Cr" [] stage = "co" -> "Co" [] stage = "al" -> "Al"

\* num_atoms and num_sub are set by the Fe stage and reused by the later ones
NumAtomsAt(stage) == IF stage = "fe" THEN NumSites(structs["super"]) ELSE num_atoms
NumSubAt(stage) == IF stage = "fe" THEN NumSub(NumAtomsAt(stage), widgets.m) ELSE num_sub
\* the number of sites the stage relabels: num_sub, or num_al_sub for Al
Wanted(stage) ==
    IF stage = "al" THEN NumSub(NumAtomsAt(stage), widgets.n) ELSE NumSubAt(stage)

\* steps 3 to 6 when enough Ni sites remain
BuildSubstitution ==
    /\ pc = "generate"
    /\ Step.op = "build"
    /\ Step.stage \in {"fe", "cr", "co", "al"}
    /\ ~InsufficientNi(structs[SourceStage(Step.stage)], Wanted(Step.stage))
    /\ num_atoms' = NumAtomsAt(Step.stage)
    /\ num_sub' = NumSubAt(Step.stage)
    /\ structs' = [structs EXCEPT ![Step.stage] =
                      Substitute(structs[SourceStage(Step.stage)], StageElement(Step.stage),
                                 Wanted(Step.stage))]
    /\ pc' = AfterStep
    /\ ip' = NextIp
    /\ UNCHANGED <<db, call, sites, frame, script, widgets, button, gens, unique_file, raised,
                   inserted, display, swept, cleared>>

\* steps 3 to 6 otherwise: raise ValueError("Insufficient Ni atoms ..."); the
\* except clause shows it and re-raises, which ends the run
SubstitutionFailsRollback ==
    /\ pc = "generate"
    /\ Step.op = "build"
    /\ Step.stage \in {"fe", "cr", "co", "al"}
    /\ InsufficientNi(structs[SourceStage(Step.stage)], Wanted(Step.stage))
    /\ num_atoms' = NumAtomsAt(Step.stage)
    /\ num_sub' = NumSubAt(Step.stage)
    /\ raised' = "ValueError"
    /\ pc' = "idle"
    /\ ip' = 0
    /\ db' = {r \in db : \A i \in 1..Len(inserted) : inserted[i] # r}
    /\ UNCHANGED <<call, sites, frame, script, widgets, button, gens, structs, unique_file,
                   inserted, display, swept, cleared>>

SubstitutionFails ==
    /\ pc = "generate"
    /\ Step.op = "build"
    /\ Step.stage \in {"fe", "cr", "co", "al"}
    /\ InsufficientNi(structs[SourceStage(Step.stage)], Wanted(Step.stage))
    /\ num_atoms' = NumAtomsAt(Step.stage)
    /\ num_sub' = NumSubAt(Step.stage)
    /\ raised' = "ValueError"
    /\ pc' = "idle"
    /\ ip' = 0
    /\ UNCHANGED <<db, call, sites, frame, script, widgets, button, gens, structs, unique_file,
                   inserted, display, swept, cleared>>

\* x_file = get_unique_filename(conn, "<name>.<ext>", "<FORMAT>")
GetName ==
    /\ pc = "generate"
    /\ Step.op = "name"
    /\ unique_file' = get_unique_filename(db,
                          StageFile(script, widgets.crystal_type, Step.stage, Step.format),
                          Step.format)
    /\ pc' = AfterStep
    /\ ip' = NextIp
    /\ UNCHANGED <<db, call, sites, frame, script, widgets, button, gens, structs, num_atoms, num_sub,
                   raised, inserted, display, swept, cleared>>

\* save_to_db(conn, x_file, "<FORMAT>", data); an exception ends the run
Save ==
    /\ pc = "generate"
    /\ Step.op = "save"
    /\ LET data == Serialize(structs[Step.stage], Step.format)
           exc == save_to_db_raises(db, unique_file, Step.format, data)
       IN  /\ db' = save_to_db(db, unique_file, Step.format, data)
           /\ raised' = exc
           /\ inserted' = IF exc = "none" THEN inserted \o SeqOf(db' \ db) ELSE inserted
           /\ pc' = IF exc = "none" THEN AfterStep ELSE "idle"
           /\ ip' = IF exc = "none" THEN NextIp ELSE 0
    /\ UNCHANGED <<call, sites, frame, script, widgets, button, gens, structs, num_atoms, num_sub,
                   unique_file, display, swept, cleared>>

\* rows with a payload: SELECT ... WHERE data IS NOT NULL AND length(data) > 0
ValidRows(tbl) == {r \in tbl : ~r.data.null /\ Len(r.data.bytes) > 0}

\* the visualization section: the selectbox offers the CIF and XSF files
VisualizationSectionAs ==
    /\ pc = "visualize"
    /\ file_options' = {r.filename : r \in ValidRows(db)}
    /\ pc' = "download"
    /\ UNCHANGED <<db, call, sites, frame, script, widgets, button, gens, runLocals, downloads, swept, cleared>>

VisualizationSection ==
    /\ pc = "visualize"
    /\ file_options' = {r.filename : r \in {x \in ValidRows(db) : x.format \in {"CIF", "XSF"}}}
    /\ pc' = "download"
    /\ UNCHANGED <<db, call, sites, frame, script, widgets, button, gens, runLocals, downloads, swept, cleared>>

\* display_download_section(): one download button per valid row
display_download_section ==
    /\ pc = "download"
    /\ downloads' = {r.filename : r \in ValidRows(db)}
    /\ pc' = "idle"
    /\ UNCHANGED <<db, call, sites, frame, script, widgets, button, gens, runLocals, file_options, swept, cleared>>

Next ==
    \/ UserEvent
    \/ StartupClean
    \/ ClearPressed
    \/ ClearNotPressed
    \/ ValidateStop
    \/ ValidatePass
    \/ GeneratePressed
    \/ GenerateNotPressed
    \/ BuildGeometry
    \/ BuildSubstitution
    \/ SubstitutionFails
    \/ GetName
    \/ Save
    \/ VisualizationSection
    \/ display_download_section

vars == <<db, call, sites, frame, script, widgets, button, pc, ip, gens, structs, num_atoms, num_sub,
          unique_file, raised, file_options, downloads, inserted, swept, cleared>>

Spec == Init /\ [][Next]_vars

\* a session that finds structures.db empty, or creates it
InitEmpty == Init /\ db = {}

SpecEmpty == InitEmpty /\ [][Next]_vars

\* ------------------------------------------------------------------------
\* Properties of a session (checked under Spec)
\* ------------------------------------------------------------------------

\* C1: in every state of a session no two rows of the structures table have
\* the same filename.
C1_FilenamesUnique == \A r1, r2 \in db : r1.filename = r2.filename => r1 = r2

\* a second generation has stored its unit cell beside the first one's
C1_Witness ==
    /\ gens = 2
    /\ Len(inserted) >= 2
    /\ {"ni_unit_fcc.xsf", "ni_unit_fcc_1.xsf"} \subseteq Filenames(db)

\* C4: once the startup clean of a run has executed, and for the rest of the
\* run, every row has a payload that is neither NULL nor of length 0.
C4_PayloadsNonEmpty ==
    pc # "startup" => \A r \in db : ~r.data.null /\ Len(r.data.bytes) > 0

\* the clean deleted a NULL row and an empty row, and the run went on to save
C4_Witness ==
    /\ pc = "generate"
    /\ inserted # <<>>
    /\ \E r \in swept : r.data.null
    /\ \E r \in swept : IsEmptyBlob(r.data)
    /\ Cardinality(db) > Len(inserted)

\* C6: the Clear Database action leaves the table empty whatever it held,
\* and the first get_unique_filename call on the emptied table returns the
\* unsuffixed name.
C6_ClearEmptiesTable ==
    /\ [][(pc = "clear_button" /\ button = "clear") => db' = {}]_vars
    /\ []((pc = "generate" /\ Step.op = "save" /\ db = {}) =>
             unique_file = StageBase(Step.stage)
                              \o (IF script = "nanotwinned"
                                  THEN "_" \o lower(widgets.crystal_type) ELSE "")
                              \o (CASE Step.format = "CIF" -> ".cif"
                                    [] Step.format = "XSF" -> ".xsf"
                                    [] Step.format = "CFG" -> ".cfg"))

\* Clear Database has just deleted the rows of a whole generation
C6_Witness ==
    /\ pc = "startup"
    /\ cleared >= 16
    /\ db = {}

\* C7: rows are added only by a step of the generation pipeline, one at a
\* time, and removed only by the startup clean or by Clear Database; in a run
\* started by neither button the valid rows stay what they were; and no step
\* changes a row that stays in the table.
C7_OnlyPipelineAdds ==
    [][ /\ (db' # db) =>
              \/ /\ pc = "generate" /\ button = "generate"
                 /\ db \subseteq db'
                 /\ Cardinality(db' \ db) = 1
              \/ /\ pc \in {"startup", "clear_button"}
                 /\ db' \subseteq db
        /\ (button \notin {"clear", "generate"}) =>
              {r \in db' : ~r.data.null /\ Len(r.data.bytes) > 0}
                  = {r \in db : ~r.data.null /\ Len(r.data.bytes) > 0}
        /\ \A r \in db, x \in db' : (r.id = x.id \/ r.filename = x.filename) => r = x
      ]_vars

\* a run started by the download button has shown both sections
C7_Witness ==
    /\ pc = "idle"
    /\ button = "download"
    /\ Cardinality(downloads) >= 16
    /\ file_options # {}

\* C8: every row a generation run has stored carries one of the script's
\* format tags, and its filename ends with "." and the lower-cased tag.
C8_FormatAndExtension ==
    \A i \in 1..Len(inserted) :
        /\ inserted[i].format \in
               (IF script = "nanotwinned" THEN {"CIF", "XSF"} ELSE {"XSF", "CFG", "CIF"})
        /\ EndsWith(inserted[i].filename,
                    CASE inserted[i].format = "CIF" -> ".cif"
                      [] inserted[i].format = "XSF" -> ".xsf"
                      [] inserted[i].format = "CFG" -> ".cfg"
                      [] OTHER -> ".?")

\* a complete run of fccstructure_construction.py, its CFG files suffixed
C8_Witness ==
    /\ script = "construction"
    /\ Len(inserted) = 16
    /\ \E i \in 1..Len(inserted) :
          inserted[i].format = "CFG" /\ inserted[i].filename = "ni_super_1.cfg"

\* the stage (1..8) a stored file belongs to, read off its name
StageOfName(fn) ==
    CHOOSE k \in 1..Len(StageNames) : StartsWith(fn, StageBase(StageNames[k]))

\* the structure cur keeps every site of prev, relabelling only Ni sites as el
Relabelled(prev, cur, el) ==
    /\ NumSites(cur) = NumSites(prev)
    /\ cur.counts[el] >= prev.counts[el]
    /\ \A x \in Elements \ {"Ni", el} : cur.counts[x] = prev.counts[x]

\* C9: the rows of a run are inserted stage by stage in the order unit cell,
\* supercell, Fe, Cr, Co, Al, mirror, nanotwin, each stage complete and
\* committed before the next one starts, and each stage's structure is made
\* from the structure of the stage before it.
C9_StagesInOrder ==
    /\ \A i \in 1..Len(inserted) :
          /\ inserted[i] \in db
          /\ structs[StageNames[StageOfName(inserted[i].filename)]].built
          /\ \A j \in 1..Len(inserted) :
                i < j => StageOfName(inserted[i].filename) <= StageOfName(inserted[j].filename)
          /\ \A k \in 1..(StageOfName(inserted[i].filename) - 1) :
                Cardinality({j \in 1..(i - 1) : StageOfName(inserted[j].filename) = k})
                    = (IF script = "nanotwinned" THEN 2
                       ELSE IF k = 7 THEN 1 ELSE 2)
    /\ \A k \in 2..Len(StageNames) :
          structs[StageNames[k]].built => structs[StageNames[k - 1]].built
    /\ structs["super"].built =>
          \A el \in Elements : structs["super"].counts[el]
              = structs["unit"].counts[el] * widgets.nx * widgets.ny * widgets.nz
    /\ structs["fe"].built => Relabelled(structs["super"], structs["fe"], "Fe")
    /\ structs["cr"].built => Relabelled(structs["fe"], structs["cr"], "Cr")
    /\ structs["co"].built => Relabelled(structs["cr"], structs["co"], "Co")
    /\ structs["al"].built => Relabelled(structs["co"], structs["al"], "Al")
    /\ structs["mirror"].built => structs["mirror"].counts = structs["al"].counts
    /\ structs["nanotwin"].built =>
          \A el \in Elements : structs["nanotwin"].counts[el]
              = structs["al"].counts[el] + structs["mirror"].counts[el]

\* a complete run that relabelled sites at every substitution stage
C9_Witness ==
    /\ pc = "visualize"
    /\ Len(inserted) = 16
    /\ structs["nanotwin"].built
    /\ structs["al"].counts["Fe"] > 0
    /\ structs["al"].counts["Al"] > 0

\* C10 (as claimed): with N sites in the supercell, the Al-substituted
\* supercell holds floor(N*m/100) sites each of Fe, Cr and Co, floor(N*n/100)
\* of Al and the rest Ni, and every substitution stage keeps N sites.
C10_FloorCounts ==
    structs["al"].built =>
        LET N == NumSites(structs["super"])
            k == (N * widgets.m) \div 10000
            a == (N * widgets.n) \div 10000
        IN  /\ structs["al"].counts["Fe"] = k
            /\ structs["al"].counts["Cr"] = k
            /\ structs["al"].counts["Co"] = k
            /\ structs["al"].counts["Al"] = a
            /\ structs["al"].counts["Ni"] = N - 3 * k - a
            /\ \A s \in {"fe", "cr", "co", "al"} : NumSites(structs[s]) = N

\* the widgets ask for more than 100 percent in all, or the rows of the
\* orientation matrix are linearly dependent
InputsInvalid == 3 * widgets.m + widgets.n > 10000 \/ Det3(widgets.orientation) = 0

\* C14: in fccnanotwinned_structure.py a run whose inputs have 3*m + n > 100
\* or a singular orientation matrix stops at validation: it never enters the
\* generation pipeline, it inserts no record, and its steps after the startup
\* clean leave the table as that clean left it.
C14_ValidationStopsRun ==
    /\ []((script = "nanotwinned" /\ InputsInvalid) =>
             /\ pc \in {"startup", "clear_button", "validate", "idle"}
             /\ inserted = <<>>)
    /\ [][(script = "nanotwinned" /\ InputsInvalid) =>
             /\ (pc = "validate" => pc' = "idle")
             /\ ((pc \in {"clear_button", "validate"} /\ button # "clear") => db' = db)]_vars

\* Generate Structures pressed on inputs with 3*m + n > 100, the table still
\* holding the records of an earlier generation
C14_Witness ==
    /\ script = "nanotwinned"
    /\ 3 * widgets.m + widgets.n > 10000
    /\ button = "generate"
    /\ pc = "idle"
    /\ Cardinality(db) >= 16

\* C16: in fccstructure_construction.py a substitution stage that asks for
\* more Ni sites than remain raises ValueError, which ends the run; neither
\* that stage nor a later one inserts a record, and the records the earlier
\* stages of the run committed stay in the table.
C16_NoRollback ==
    /\ [][(/\ script = "construction"
           /\ pc = "generate"
           /\ Step.op = "build"
           /\ Step.stage \in {"fe", "cr", "co", "al"}
           /\ structs[SourceStage(Step.stage)].counts["Ni"] < Wanted(Step.stage)) =>
             /\ raised' = "ValueError"
             /\ pc' = "idle"
             /\ db' = db
             /\ inserted' = inserted]_vars
    /\ []((script = "construction" /\ raised = "ValueError") =>
             /\ pc = "idle"
             /\ \E k \in 3..6 :
                   /\ \A j \in 1..Len(StageNames) : structs[StageNames[j]].built <=> j < k
                   /\ Len(inserted) = 2 * (k - 1)
                   /\ \A i \in 1..Len(inserted) :
                         /\ inserted[i] \in db
                         /\ StageOfName(inserted[i].filename) < k)

\* the Co stage of a run has failed; the eight records of the unit cell, the
\* supercell and the Fe and Cr stages are in the table
C16_Witness ==
    /\ script = "construction"
    /\ raised = "ValueError"
    /\ Len(inserted) = 8
    /\ structs["cr"].built
    /\ \A i \in 1..Len(inserted) : inserted[i] \in db

\* C17: in fccnanotwinned_structure.py, once the inputs have passed the
\* validation, no substitution stage finds fewer Ni sites than it asks for:
\* none of the four "Insufficient Ni atoms" errors is raised.
C17_NiNeverInsufficient ==
    script = "nanotwinned" =>
        /\ raised # "ValueError"
        /\ (pc = "generate" /\ Step.op = "build" /\ Step.stage \in {"fe", "cr", "co", "al"}) =>
               structs[SourceStage(Step.stage)].counts["Ni"] >= Wanted(Step.stage)

\* 3*m + n = 100 on four sites: the Al stage took the last Ni site
C17_Witness ==
    /\ script = "nanotwinned"
    /\ 3 * widgets.m + widgets.n = 10000
    /\ structs["al"].built
    /\ structs["al"].counts["Ni"] = 0
    /\ structs["al"].counts["Al"] > 0
    /\ structs["al"].counts["Co"] > 0

\* ------------------------------------------------------------------------
\* SpecDb: the database helpers called directly, with arguments drawn from
\* small sets
\* ------------------------------------------------------------------------

ArgFilenames == {"ni_unit_fcc.xsf", "ni_unit_fcc_1.cif", "ni.unit.cfg", "README"}
ArgFormats == {"CIF", "XSF"}
SaveFilenames == {"ni_unit_fcc.cif"}
ArgData == {Null, Blob(""), Blob("xsf")}

\* what SpecDb records of a call: the helper, its arguments, the table it was
\* given, the value it returned and the exception it raised
NoCall == [op |-> "none", filename |-> "", format |-> "", data |-> Null,
           before |-> {}, result |-> "", raised |-> "none"]

sessionVars == <<script, widgets, button, pc, ip, gens, structs, num_atoms, num_sub,
                 unique_file, raised, file_options, downloads, inserted, swept, cleared>>

InitDb ==
    /\ db \in InitialTables
    /\ call = NoCall
    /\ sites = NoSites
    /\ frame = NoFrame
    /\ script = "nanotwinned"
    /\ widgets = Widgets("FCC", 1, 1, 1, 2500, 2500, DefaultOrientation, "Y")
    /\ button = "none"
    /\ pc = "idle"
    /\ ip = 0
    /\ gens = 0
    /\ structs = NoStructures
    /\ num_atoms = 0
    /\ num_sub = 0
    /\ unique_file = ""
    /\ raised = "none"
    /\ file_options = {}
    /\ downloads = {}
    /\ inserted = <<>>
    /\ swept = {}
    /\ cleared = 0

CallGetUnique ==
    \E fn \in ArgFilenames, fmt \in ArgFormats :
        /\ call' = [op |-> "get_unique_filename", filename |-> fn, format |-> fmt,
                    data |-> Null, before |-> db,
                    result |-> get_unique_filename(db, fn, fmt), raised |-> "none"]
        /\ db' = db
        /\ UNCHANGED <<sessionVars, sites, frame>>

\* save_to_db is handed a name from the argument set or, as the scripts do,
\* the name the preceding get_unique_filename returned
CallSave ==
    \E fn \in SaveFilenames \cup (IF call.op = "get_unique_filename" THEN {call.result} ELSE {}),
       fmt \in ArgFormats, d \in ArgData :
        /\ Cardinality(db) < MaxRows
        /\ call' = [op |-> "save_to_db", filename |-> fn, format |-> fmt, data |-> d,
                    before |-> db, result |-> "",
                    raised |-> save_to_db_raises(db, fn, fmt, d)]
        /\ db' = save_to_db(db, fn, fmt, d)
        /\ UNCHANGED <<sessionVars, sites, frame>>

CallClear ==
    /\ call' = [NoCall EXCEPT !.op = "clear_database", !.before = db]
    /\ db' = clear_database(db)
    /\ UNCHANGED <<sessionVars, sites, frame>>

CallClean ==
    /\ call' = [NoCall EXCEPT !.op = "clean_database", !.before = db]
    /\ db' = clean_database(db)
    /\ UNCHANGED <<sessionVars, sites, frame>>

NextDb == CallGetUnique \/ CallSave \/ CallClear \/ CallClean

SpecDb == InitDb /\ [][NextDb]_vars

\* ------------------------------------------------------------------------
\* Properties of the database helpers (checked under SpecDb)
\* ------------------------------------------------------------------------

\* the k-th name get_unique_filename can propose for a base name
Candidate(base, ext, k) ==
    IF k = 0 THEN base \o "." \o ext ELSE base \o "_" \o ToString(k) \o "." \o ext

\* C2: get_unique_filename returns a name no row of the table carries: the
\* unsuffixed base.ext when that is free, otherwise base_k.ext for the least
\* k >= 1 that is free; and it leaves the table as it found it.
C2_UniqueName ==
    call.op = "get_unique_filename" =>
        LET base == splitext_root(call.filename)
            ext == lower(call.format)
        IN  /\ call.result \notin Filenames(call.before)
            /\ \E k \in 0..Cardinality(call.before) :
                    /\ call.result = Candidate(base, ext, k)
                    /\ \A j \in 0..(k - 1) : Candidate(base, ext, j) \in Filenames(call.before)
            /\ db = call.before

\* a call that had to skip at least two taken names
C2_Witness ==
    /\ call.op = "get_unique_filename"
    /\ call.result = "ni_unit_fcc_2.cif"
    /\ {"ni_unit_fcc.cif", "ni_unit_fcc_1.cif"} \subseteq Filenames(db)

\* C3: save_to_db with None or zero-length data raises ValueError and the
\* table holds exactly the rows it held before the call.
C3_EmptyDataRejected ==
    (call.op = "save_to_db" /\ (call.data.null \/ Len(call.data.bytes) = 0)) =>
        /\ call.raised = "ValueError"
        /\ db = call.before

\* an empty byte string offered under a free name, to a table that has rows
C3_Witness ==
    /\ call.op = "save_to_db"
    /\ call.data = Blob("")
    /\ call.filename \notin Filenames(call.before)
    /\ call.before # {}

\* C5: clean_database deletes exactly the rows whose data is NULL or of
\* length 0 and keeps every other row as it was; on a table of non-empty
\* payloads it changes nothing, and a second application changes nothing.
C5_CleanExact ==
    call.op = "clean_database" =>
        /\ db \subseteq call.before
        /\ \A r \in call.before : (r \in db) <=> (~r.data.null /\ Len(r.data.bytes) > 0)
        /\ ((\A r \in call.before : ~r.data.null /\ Len(r.data.bytes) > 0) => db = call.before)
        /\ clean_database(db) = db

\* a clean that deleted a NULL row and an empty row and kept a valid one
C5_Witness ==
    /\ call.op = "clean_database"
    /\ \E r \in call.before : r.data.null
    /\ \E r \in call.before : IsEmptyBlob(r.data)
    /\ db # {}
    /\ db # call.before

\* ------------------------------------------------------------------------
\* SpecSites: the generation stages applied to small structures kept site by
\* site, each site with its element and its three fractional coordinates.
\* A coordinate is a float with a sign: [neg, m, e].
\* ------------------------------------------------------------------------

Signed(neg, x) == [neg |-> neg, m |-> x.m, e |-> x.e]
Mag(x) == [m |-> x.m, e |-> x.e]
PosZero == Signed(FALSE, FZero)

\* -x
Negate(x) == [x EXCEPT !.neg = ~x.neg]

\* x + y
SignedAdd(x, y) ==
    IF x.neg = y.neg THEN Signed(x.neg, FAdd(Mag(x), Mag(y)))
    ELSE IF Mag(x) = Mag(y) THEN PosZero
    ELSE IF FLess(Mag(x), Mag(y)) THEN Signed(y.neg, FSub(Mag(y), Mag(x)))
    ELSE Signed(x.neg, FSub(Mag(x), Mag(y)))

\* x % 1.0 for -2 < x < 2: the remainder r of fmod, which has the sign of x;
\* a negative r becomes the float nearest to r + 1.0, a zero r becomes 0.0
Mod1(x) ==
    LET r == IF FLess(Mag(x), FromInt(1)) THEN Mag(x) ELSE FSub(Mag(x), FromInt(1))
    IN  IF r.m = <<>> THEN PosZero
        ELSE IF x.neg THEN Signed(FALSE, FSub(FromInt(1), r))
        ELSE Signed(FALSE, r)

\* the rounding residue the library's conversion of a site from Cartesian to
\* fractional coordinates leaves in place of a coordinate that is 0: none, a
\* positive one or a negative one
Residue(noise) ==
    CASE noise = "none" -> PosZero
      [] noise = "above" -> Signed(FALSE, FPow2(-55))
      [] noise = "below" -> Signed(TRUE, FPow2(-56))

\* coords of the unit cell, each coordinate as <<numerator, denominator>>
UnitCoords(scr, ct) ==
    IF scr = "construction" \/ ct = "FCC"
    THEN << << <<0, 1>>, <<0, 1>>, <<0, 1>> >>, << <<1, 2>>, <<1, 2>>, <<0, 1>> >>,
            << <<1, 2>>, <<0, 1>>, <<1, 2>> >>, << <<0, 1>>, <<1, 2>>, <<1, 2>> >> >>
    ELSE IF ct = "HCP"
    THEN << << <<0, 1>>, <<0, 1>>, <<0, 1>> >>, << <<1, 3>>, <<2, 3>>, <<1, 2>> >> >>
    ELSE << << <<0, 1>>, <<0, 1>>, <<0, 1>> >>, << <<1, 2>>, <<1, 2>>, <<1, 2>> >> >>

\* A lattice is kept as its three vectors written in the vectors of
\* Lattice.cubic / tetragonal / hexagonal (basis, whole numbers), and whether
\* it was rebuilt from its lengths and angles by Lattice.from_parameters,
\* which keeps the lengths and angles of basis and puts the vectors in the
\* library's standard setting.
Lattice(basis, rebuilt) == [basis |-> basis, rebuilt |-> rebuilt]

SiteStructure(lattice, species, frac_coords) ==
    [lattice |-> lattice, species |-> species, frac_coords |-> frac_coords]

NoSiteStructure == SiteStructure(Lattice(<<>>, FALSE), <<>>, <<>>)

\* step 1: the Ni unit cell in the lattice np.dot(orientation_matrix, matrix)
unit_cell(scr, w) ==
    LET coords == UnitCoords(scr, w.crystal_type)
    IN  SiteStructure(Lattice(w.orientation, FALSE),
                      [i \in 1..Len(coords) |-> "Ni"],
                      [i \in 1..Len(coords) |->
                          [k \in 1..3 |-> Signed(FALSE, FDivInt(FromInt(coords[i][k][1]),
                                                                coords[i][k][2]))]])

\* get_reduced_structure() on the cell of three orthogonal vectors [11-2],
\* [111], [-110]: the vectors ordered by length, which exchanges the first
\* and the third, and with them the first and third coordinate of each site
get_reduced_structure(st) ==
    SiteStructure(Lattice(<<st.lattice.basis[3], st.lattice.basis[2], st.lattice.basis[1]>>,
                          st.lattice.rebuilt),
                  st.species,
                  [i \in 1..Len(st.frac_coords) |->
                      <<st.frac_coords[i][3], st.frac_coords[i][2], st.frac_coords[i][1]>>])

\* step 2: unit_cell * (nx, ny, nz).  Every site is repeated at every lattice
\* point, its coordinate along a vector being (i + f) / n; the library gets it
\* through Cartesian coordinates, so that a coordinate that is 0 can come out
\* with a rounding residue, except at the origin
super_cell(unit, w, noise) ==
    LET \* the lattice points of the supercell, in the library's order
        pts == [p \in 1..(w.nx * w.ny * w.nz) |->
                   <<(p - 1) \div (w.ny * w.nz), ((p - 1) \div w.nz) % w.ny, (p - 1) % w.nz>>]
        mult == <<w.nx, w.ny, w.nz>>
        count == Len(unit.species) * Len(pts)
        siteOf(q) == ((q - 1) \div Len(pts)) + 1
        ptOf(q) == pts[((q - 1) % Len(pts)) + 1]
        coord(q, k) ==
            LET x == FDivInt(FAdd(FromInt(ptOf(q)[k]), Mag(unit.frac_coords[siteOf(q)][k])),
                             mult[k])
            IN  IF x.m = <<>> /\ (\E j \in 1..3 : ptOf(q)[j] # 0
                                                   \/ unit.frac_coords[siteOf(q)][j].m # <<>>)
                THEN Residue(noise)
                ELSE Signed(FALSE, x)
    IN  SiteStructure(Lattice([k \in 1..3 |-> [j \in 1..3 |-> mult[k] * unit.lattice.basis[k][j]]],
                              unit.lattice.rebuilt),
                      [q \in 1..count |-> unit.species[siteOf(q)]],
                      [q \in 1..count |-> [k \in 1..3 |-> coord(q, k)]])

\* [i for i, s in enumerate(structure.species) if s.symbol == "Ni"]
ni_indices(st) == {i \in 1..Len(st.species) : st.species[i] = "Ni"}

\* random.sample(ni_indices, k): any list of k different members
random_sampleAs(population, k) == [1..k -> population]
random_sample(population, k) ==
    {s \in [1..k -> population] : \A i, j \in 1..k : s[i] = s[j] => i = j}

RECURSIVE relabel(_, _, _, _)
\* for idx in sub_indices: structure[idx] = el
relabel(species, sub_indices, el, i) ==
    IF i > Len(sub_indices) THEN species
    ELSE relabel([species EXCEPT ![sub_indices[i]] = el], sub_indices, el, i + 1)

\* steps 3 to 6: x = previous.copy(), then the sampled sites relabelled
substitute(st, sub_indices, el) ==
    SiteStructure(st.lattice, relabel(st.species, sub_indices, el, 1), st.frac_coords)

\* step 7: frac_coords[:, axis_idx] = (-frac_coords[:, axis_idx]) % 1.0
mirror(al_super, axis_idx) ==
    SiteStructure(al_super.lattice, al_super.species,
                  [i \in 1..Len(al_super.frac_coords) |->
                      [k \in 1..3 |-> IF k = axis_idx
                                      THEN Mod1(Negate(al_super.frac_coords[i][k]))
                                      ELSE al_super.frac_coords[i][k]]])

\* step 8, the lattice: cell_mat[axis_idx, :] *= 2 in
\* fccnanotwinned_structure.py, Lattice.from_parameters(a, b * 2, c, alpha,
\* beta, gamma) in fccstructure_construction.py
super_lattice(scr, lattice, axis_idx) ==
    Lattice([k \in 1..3 |-> [j \in 1..3 |->
                IF k = axis_idx THEN 2 * lattice.basis[k][j] ELSE lattice.basis[k][j]]],
            IF scr = "construction" THEN TRUE ELSE lattice.rebuilt)

\* step 8: mirrored_frac[:, axis_idx] = (mirrored_frac[:, axis_idx] + 0.5) % 1.0,
\* then the sites of both structures in the new lattice
merged_structureAs(scr, al_super, al_mirror, axis_idx) ==
    SiteStructure(super_lattice(scr, al_super.lattice, axis_idx),
                  al_mirror.species \o al_super.species,
                  [i \in 1..Len(al_mirror.frac_coords) |->
                       [k \in 1..3 |-> IF k = axis_idx
                                       THEN Mod1(SignedAdd(al_mirror.frac_coords[i][k],
                                                           Signed(FALSE, FPow2(-1))))
                                       ELSE al_mirror.frac_coords[i][k]]]
                      \o al_super.frac_coords)

merged_structure(scr, al_super, al_mirror, axis_idx) ==
    SiteStructure(super_lattice(scr, al_super.lattice, axis_idx),
                  al_super.species \o al_mirror.species,
                  al_super.frac_coords \o
                      [i \in 1..Len(al_mirror.frac_coords) |->
                          [k \in 1..3 |-> IF k = axis_idx
                                          THEN Mod1(SignedAdd(al_mirror.frac_coords[i][k],
                                                              Signed(FALSE, FPow2(-1))))
                                          ELSE al_mirror.frac_coords[i][k]]])

\* the variables of a session and of the database, which the site-level and
\* the phase-composition specifications leave alone
otherVars == <<db, call, script, widgets, button, pc, ip, gens, structs, num_atoms, num_sub,
               unique_file, raised, file_options, downloads, inserted, swept, cleared>>

\* The inputs of a site-level generation: the widget settings and the
\* rounding residue of the supercell.  The supercells are small ones, so
\* that every site can be followed; fccstructure_construction.py itself
\* multiplies by ConstructionNx, ConstructionNy, ConstructionNz, and the
\* supercells drawn for it keep an odd multiplier along Y, as 7 is.  The
\* settings drawn for fccnanotwinned_structure.py pass its validation.
SiteChoices(scr) ==
    IF scr = "nanotwinned"
    THEN { [w |-> Widgets("FCC", 1, 1, 1, 2500, 2500, DefaultOrientation, "Y"), noise |-> "none"],
           [w |-> Widgets("FCC", 1, 1, 1, 2500, 2500, DefaultOrientation, "Z"), noise |-> "above"],
           [w |-> Widgets("FCC", 1, 1, 1, 2500, 2500, DefaultOrientation, "X"), noise |-> "below"],
           [w |-> Widgets("BCC", 1, 2, 1, 2500, 2500, DefaultOrientation, "Y"), noise |-> "none"],
           [w |-> Widgets("HCP", 1, 1, 2, 2222, 1112, DefaultOrientation, "Z"), noise |-> "none"],
           [w |-> Widgets("BCT", 2, 1, 1, 2500, 2500, DefaultOrientation, "X"), noise |-> "below"] }
    ELSE { [w |-> Widgets("FCC", 1, 1, 1, 2500, 2500, DefaultOrientation, "Y"), noise |-> "none"],
           [w |-> Widgets("FCC", 1, 1, 1, 2500, 2500, DefaultOrientation, "Y"), noise |-> "above"],
           [w |-> Widgets("FCC", 1, 1, 1, 2500, 2500, DefaultOrientation, "Y"), noise |-> "below"],
           [w |-> Widgets("FCC", 1, 1, 1, 5000, 0, DefaultOrientation, "Y"), noise |-> "none"] }

InitSites ==
    /\ \E scr \in {"nanotwinned", "construction"} :
         \E c \in SiteChoices(scr) :
            sites = [stage |-> "start", script |-> scr, w |-> c.w, noise |-> c.noise,
                     st |-> [s \in {StageNames[i] : i \in 1..Len(StageNames)} |-> NoSiteStructure],
                     num_atoms |-> 0, num_sub |-> 0,
                     sub_indices |-> <<>>, raised |-> "none"]
    /\ frame = NoFrame
    /\ db = {}
    /\ call = NoCall
    /\ script = "nanotwinned"
    /\ widgets = Widgets("FCC", 1, 1, 1, 2500, 2500, DefaultOrientation, "Y")
    /\ button = "none"
    /\ pc = "idle"
    /\ ip = 0
    /\ gens = 0
    /\ structs = NoStructures
    /\ num_atoms = 0
    /\ num_sub = 0
    /\ unique_file = ""
    /\ raised = "none"
    /\ file_options = {}
    /\ downloads = {}
    /\ inserted = <<>>
    /\ swept = {}
    /\ cleared = 0

\* steps 1 and 2: the unit cell and the supercell
SitesSupercell ==
    /\ sites.stage = "start"
    /\ LET cell == unit_cell(sites.script, sites.w)
           unit == IF sites.script = "construction" THEN get_reduced_structure(cell) ELSE cell
       IN  sites' = [sites EXCEPT !.stage = "super",
                                  !.st["unit"] = unit,
                                  !.st["super"] = super_cell(unit, sites.w, sites.noise)]
    /\ UNCHANGED <<otherVars, frame>>

SitesNextStage ==
    CASE sites.stage = "super" -> "fe" [] sites.stage = "fe" -> "cr"
      [] sites.stage = "cr" -> "co" [] sites.stage = "co" -> "al"

\* num_atoms and num_sub are set by the Fe stage and reused by the later ones
SitesNumAtoms ==
    IF sites.stage = "super" THEN Len(sites.st["super"].species) ELSE sites.num_atoms
SitesNumSub ==
    IF sites.stage = "super" THEN NumSub(SitesNumAtoms, sites.w.m) ELSE sites.num_sub
SitesWanted ==
    IF sites.stage = "co" THEN NumSub(SitesNumAtoms, sites.w.n) ELSE SitesNumSub

\* steps 3 to 6 when enough Ni sites remain
SitesSubstitute ==
    /\ sites.stage \in {"super", "fe", "cr", "co"}
    /\ Cardinality(ni_indices(sites.st[sites.stage])) >= SitesWanted
    /\ \E sub_indices \in random_sample(ni_indices(sites.st[sites.stage]), SitesWanted) :
         sites' = [sites EXCEPT !.stage = SitesNextStage,
                                !.num_atoms = SitesNumAtoms,
                                !.num_sub = SitesNumSub,
                                !.sub_indices = sub_indices,
                                !.st[SitesNextStage] =
                                    substitute(sites.st[sites.stage], sub_indices,
                                               StageElement(SitesNextStage))]
    /\ UNCHANGED <<otherVars, frame>>

\* steps 3 to 6 when too few Ni sites remain: raise ValueError
SitesSubstituteFails ==
    /\ sites.stage \in {"super", "fe", "cr", "co"}
    /\ Cardinality(ni_indices(sites.st[sites.stage])) < SitesWanted
    /\ sites' = [sites EXCEPT !.stage = "failed",
                              !.num_atoms = SitesNumAtoms,
                              !.num_sub = SitesNumSub,
                              !.raised = "Insufficient Ni atoms"]
    /\ UNCHANGED <<otherVars, frame>>

\* the column the mirror and the merge work on: axis_idx of the mirror_axis
\* radio in fccnanotwinned_structure.py, column 1 (Y) in
\* fccstructure_construction.py
SitesAxisIdx == IF sites.script = "construction" THEN 2 ELSE AxisIdx(sites.w.mirror_axis)

\* step 7: the mirror image of the Al-substituted supercell
SitesMirror ==
    /\ sites.stage = "al"
    /\ sites' = [sites EXCEPT !.stage = "mirror",
                              !.st["mirror"] = mirror(sites.st["al"], SitesAxisIdx)]
    /\ UNCHANGED <<otherVars, frame>>

\* step 8: the merged nanotwin
SitesMerge ==
    /\ sites.stage = "mirror"
    /\ sites' = [sites EXCEPT !.stage = "nanotwin",
                              !.st["nanotwin"] =
                                  merged_structure(sites.script, sites.st["al"],
                                                   sites.st["mirror"], SitesAxisIdx)]
    /\ UNCHANGED <<otherVars, frame>>

NextSites ==
    \/ SitesSupercell
    \/ SitesSubstitute
    \/ SitesSubstituteFails
    \/ SitesMirror
    \/ SitesMerge

SpecSites == InitSites /\ [][NextSites]_vars

\* ------------------------------------------------------------------------
\* SpecPlot: one run of a phase-composition script,
\*   src/crystal_structure/phase_composition_visualization.py ("visualization")
\*   src/crystal_structure/phase_composition_enhanced_visualization.py ("enhanced")
\* A data frame is a sequence of rows, a row a function from column names to
\* floats.  Frames are objects: the run holds them in a list and its
\* variables refer to them by position, so that a write through one name is
\* seen through every name of the same object.
\* ------------------------------------------------------------------------

MoleColumns == <<"xAl", "xNi", "xCr", "xCo", "xFe">>

\* default_data, a line per alloy, the five fractions in ten-thousandths and
\* in the order of the header: xAl, xNi, xCr, xCo, xFe
default_data ==
    << <<0, 2500, 2500, 2500, 2500>>,
       <<244, 2439, 2439, 2439, 2439>>,
       <<476, 2381, 2381, 2381, 2381>>,
       <<698, 2326, 2326, 2326, 2326>>,
       <<909, 2273, 2273, 2273, 2273>>,
       <<1111, 2222, 2222, 2222, 2222>>,
       <<1304, 2174, 2174, 2174, 2174>>,
       <<1489, 2128, 2128, 2128, 2128>>,
       <<1667, 2083, 2083, 2083, 2083>>,
       <<1837, 2041, 2041, 2041, 2041>>,
       <<2000, 2000, 2000, 2000, 2000>>,
       <<2157, 1961, 1961, 1961, 1961>>,
       <<2308, 1923, 1923, 1923, 1923>>,
       <<2453, 1887, 1887, 1887, 1887>>,
       <<2593, 1852, 1852, 1852, 1852>>,
       <<2727, 1818, 1818, 1818, 1818>> >>

\* CSV texts a user can upload: one line, or two, of fractions written with
\* four decimals
Uploads ==
    {<< <<al, ni, cr, co, fe>> >> : al \in {0, 1489, 3333}, ni \in {0, 2128},
                                   cr \in {0, 2128, 3334}, co \in {0, 2128}, fe \in {0, 2128}}
        \cup {<<default_data[4], default_data[8]>>, <<default_data[8], <<0, 0, 0, 0, 0>>>>}

\* pd.read_csv: every field becomes the nearest float
read_csv(text) ==
    [i \in 1..Len(text) |-> [c \in {MoleColumns[k] : k \in 1..Len(MoleColumns)} |->
        FloatOfTenThousandths(text[i][CHOOSE k \in 1..Len(MoleColumns) : MoleColumns[k] = c])]]

\* the values of an element-wise operation that are not numbers
NaN == [m |-> <<>>, e |-> 0, special |-> "nan"]
Inf == [m |-> <<>>, e |-> 0, special |-> "inf"]

\* Series / Series, element by element: a zero divisor gives inf or NaN
SeriesDiv(x, y) ==
    IF y.m = <<>> THEN (IF x.m = <<>> THEN NaN ELSE Inf) ELSE FDiv(x, y)

\* df[col] = values: the frame with the column set, row by row
SetColumn(df, col, values) == [i \in 1..Len(df) |-> (col :> values[i]) @@ df[i]]

\* df.copy(): a new object with the same contents, added to the objects
copy(objects, df) == [objects |-> Append(objects, objects[df]), result |-> Len(objects) + 1]

\* normalize_ternary(df): the objects after the call and the object returned
normalize_ternaryAs(objects, df) ==
    LET df_copy == df
        old == objects[df_copy]
        total == [i \in 1..Len(old) |->
                     FAdd(FAdd(FAdd(FAdd(old[i]["xAl"], old[i]["xCo"]), old[i]["xCr"]),
                               old[i]["xFe"]), old[i]["xNi"])]
        c1 == SetColumn(old, "p_Al_norm",
                        [i \in 1..Len(old) |-> SeriesDiv(old[i]["xAl"], total[i])])
        c2 == SetColumn(c1, "p_CoCr_norm",
                        [i \in 1..Len(old) |->
                            SeriesDiv(FAdd(old[i]["xCo"], old[i]["xCr"]), total[i])])
        c3 == SetColumn(c2, "p_FeNi_norm",
                        [i \in 1..Len(old) |->
                            SeriesDiv(FAdd(old[i]["xFe"], old[i]["xNi"]), total[i])])
    IN  [objects |-> [objects EXCEPT ![df_copy] = c3], result |-> df_copy]

normalize_ternary(objects, df) ==
    LET copied == copy(objects, df)
        df_copy == copied.result
        old == copied.objects[df_copy]
        total == [i \in 1..Len(old) |->
                     FAdd(FAdd(FAdd(FAdd(old[i]["xAl"], old[i]["xCo"]), old[i]["xCr"]),
                               old[i]["xFe"]), old[i]["xNi"])]
        c1 == SetColumn(old, "p_Al_norm",
                        [i \in 1..Len(old) |-> SeriesDiv(old[i]["xAl"], total[i])])
        c2 == SetColumn(c1, "p_CoCr_norm",
                        [i \in 1..Len(old) |->
                            SeriesDiv(FAdd(old[i]["xCo"], old[i]["xCr"]), total[i])])
        c3 == SetColumn(c2, "p_FeNi_norm",
                        [i \in 1..Len(old) |->
                            SeriesDiv(FAdd(old[i]["xFe"], old[i]["xNi"]), total[i])])
    IN  [objects |-> [copied.objects EXCEPT ![df_copy] = c3], result |-> df_copy]

\* main of phase_composition_visualization.py: df['p_Al'] = df['xAl'] ...
ternary_coordinates(objects, df) ==
    LET old == objects[df]
        c1 == SetColumn(old, "p_Al", [i \in 1..Len(old) |-> old[i]["xAl"]])
        c2 == SetColumn(c1, "p_CoCr",
                        [i \in 1..Len(old) |-> FAdd(old[i]["xCo"], old[i]["xCr"])])
        c3 == SetColumn(c2, "p_FeNi",
                        [i \in 1..Len(old) |-> FAdd(old[i]["xFe"], old[i]["xNi"])])
    IN  [objects |-> [objects EXCEPT ![df] = c3], result |-> df]

InitPlot ==
    /\ frame \in [stage : {"start"}, script : {"visualization", "enhanced"}, source : {"none"},
                  text : {<<>>}, objects : {<<>>}, loaded : {0}, df : {0}]
    /\ sites = NoSites
    /\ db = {}
    /\ call = NoCall
    /\ script = "nanotwinned"
    /\ widgets = Widgets("FCC", 1, 1, 1, 2500, 2500, DefaultOrientation, "Y")
    /\ button = "none"
    /\ pc = "idle"
    /\ ip = 0
    /\ gens = 0
    /\ structs = NoStructures
    /\ num_atoms = 0
    /\ num_sub = 0
    /\ unique_file = ""
    /\ raised = "none"
    /\ file_options = {}
    /\ downloads = {}
    /\ inserted = <<>>
    /\ swept = {}
    /\ cleared = 0

\* df = load_data(...): the default data, or the CSV the user uploaded
LoadData ==
    /\ frame.stage = "start"
    /\ \E src \in {"Default Data", "Upload CSV"} :
         \E text \in (IF src = "Default Data" THEN {default_data} ELSE Uploads) :
            frame' = [frame EXCEPT !.stage = "loaded", !.source = src, !.text = text,
                                   !.objects = <<read_csv(text)>>, !.loaded = 1, !.df = 1]
    /\ UNCHANGED <<otherVars, sites>>

\* phase_composition_visualization.py: the ternary coordinates of the plot
TernaryCoordinates ==
    /\ frame.stage = "loaded"
    /\ frame.script = "visualization"
    /\ LET r == ternary_coordinates(frame.objects, frame.df)
       IN  frame' = [frame EXCEPT !.stage = "plot", !.objects = r.objects, !.df = r.result]
    /\ UNCHANGED <<otherVars, sites>>

\* phase_composition_enhanced_visualization.py: df = normalize_ternary(df)
NormalizeTernary ==
    /\ frame.stage = "loaded"
    /\ frame.script = "enhanced"
    /\ LET r == normalize_ternary(frame.objects, frame.df)
       IN  frame' = [frame EXCEPT !.stage = "plot", !.objects = r.objects, !.df = r.result]
    /\ UNCHANGED <<otherVars, sites>>

NextPlot == LoadData \/ TernaryCoordinates \/ NormalizeTernary

SpecPlot == InitPlot /\ [][NextPlot]_vars

\* ------------------------------------------------------------------------
\* Properties of the phase-composition scripts (checked under SpecPlot)
\* ------------------------------------------------------------------------

One == FromInt(1)

\* xAl + xCo + xCr + xFe + xNi of a row, in floats
RowTotal(row) ==
    FAdd(FAdd(FAdd(FAdd(row["xAl"], row["xCo"]), row["xCr"]), row["xFe"]), row["xNi"])

\* the sum of the three normalised coordinates of a row, in floats
NormSum(row) == FAdd(FAdd(row["p_Al_norm"], row["p_CoCr_norm"]), row["p_FeNi_norm"])

\* the frame normalize_ternary returned carries, for every row with a
\* non-zero total, the three quotients; the frame it was given is as loaded
NormalizedAsStated ==
    LET given == frame.objects[frame.loaded]
        out == frame.objects[frame.df]
    IN  /\ given = read_csv(frame.text)
        /\ Len(out) = Len(given)
        /\ \A i \in 1..Len(out) :
              /\ \A k \in 1..Len(MoleColumns) : out[i][MoleColumns[k]] = given[i][MoleColumns[k]]
              /\ RowTotal(given[i]).m # <<>> =>
                    /\ out[i]["p_Al_norm"] = FDiv(given[i]["xAl"], RowTotal(given[i]))
                    /\ out[i]["p_CoCr_norm"]
                          = FDiv(FAdd(given[i]["xCo"], given[i]["xCr"]), RowTotal(given[i]))
                    /\ out[i]["p_FeNi_norm"]
                          = FDiv(FAdd(given[i]["xFe"], given[i]["xNi"]), RowTotal(given[i]))

\* C12 (as claimed): normalize_ternary gives every row whose fractions have a
\* non-zero total the coordinates xAl/total, (xCo+xCr)/total and
\* (xFe+xNi)/total, which sum to exactly one, and leaves the frame it was
\* given unchanged.
C12_NormalizedSumExactlyOne ==
    (frame.stage = "plot" /\ frame.script = "enhanced") =>
        /\ NormalizedAsStated
        /\ \A i \in 1..Len(frame.objects[frame.df]) :
              RowTotal(frame.objects[frame.loaded][i]).m # <<>> =>
                  NormSum(frame.objects[frame.df][i]) = One

\* C12 (amended): as above, but the three coordinates sum to one only up to
\* the rounding of the float operations: the float sum lies strictly between
\* 1 - 2^-49 and 1 + 2^-49.
C12_NormalizedSumNearOne ==
    (frame.stage = "plot" /\ frame.script = "enhanced") =>
        /\ NormalizedAsStated
        /\ \A i \in 1..Len(frame.objects[frame.df]) :
              RowTotal(frame.objects[frame.loaded][i]).m # <<>> =>
                  /\ FLess(FSub(One, FPow2(-49)), NormSum(frame.objects[frame.df][i]))
                  /\ FLess(NormSum(frame.objects[frame.df][i]), FAdd(One, FPow2(-49)))

\* the default data normalised: some row sums to one, another does not
C12_Witness ==
    /\ frame.stage = "plot"
    /\ frame.script = "enhanced"
    /\ frame.text = default_data
    /\ frame.df # frame.loaded
    /\ \E i \in 1..Len(frame.objects[frame.df]) : NormSum(frame.objects[frame.df][i]) # One
    /\ \E i \in 1..Len(frame.objects[frame.df]) : NormSum(frame.objects[frame.df][i]) = One

\* a float coordinate read as a 4-decimal number, in ten-thousandths
TenThousandths(x) == FInt(FAdd(FMulInt(10000, x), FPow2(-1)))

\* C13 (as claimed): for every row of the built-in default data the three
\* coordinates phase_composition_visualization.py plots, p_Al, p_CoCr and
\* p_FeNi, taken as 4-decimal numbers, sum to one.
C13_DefaultRowsSumToOne ==
    (frame.stage = "plot" /\ frame.script = "visualization" /\ frame.source = "Default Data") =>
        \A i \in 1..Len(frame.objects[frame.df]) :
            LET row == frame.objects[frame.df][i]
            IN  TenThousandths(row["p_Al"]) + TenThousandths(row["p_CoCr"])
                    + TenThousandths(row["p_FeNi"]) = 10000

\* ------------------------------------------------------------------------
\* Properties of the site-level generation (SpecSites)
\* ------------------------------------------------------------------------

SiteCount(st, el) == Cardinality({i \in 1..Len(st.species) : st.species[i] = el})

\* the merged nanotwin holds the sites of the Al-substituted supercell and
\* then those of the mirror image, the latter moved along the mirror axis
\* only, and each element twice
MergedSitesAsStated ==
    LET al == sites.st["al"]
        mi == sites.st["mirror"]
        nt == sites.st["nanotwin"]
        N == Len(al.species)
    IN  /\ Len(nt.species) = 2 * N
        /\ Len(nt.frac_coords) = 2 * N
        /\ Len(mi.species) = N
        /\ \A i \in 1..N :
              /\ nt.species[i] = al.species[i]
              /\ nt.frac_coords[i] = al.frac_coords[i]
              /\ nt.species[N + i] = mi.species[i]
              /\ \A k \in 1..3 : k # SitesAxisIdx => nt.frac_coords[N + i][k] = mi.frac_coords[i][k]
        /\ \A el \in Elements : SiteCount(nt, el) = 2 * SiteCount(al, el)

\* the cell of the nanotwin has the lengths and angles of the supercell's
\* with the length along the mirror axis doubled
MergedCellDoubled ==
    LET al == sites.st["al"]
        nt == sites.st["nanotwin"]
    IN  \A k \in 1..3 : \A j \in 1..3 :
           nt.lattice.basis[k][j] =
               (IF k = SitesAxisIdx THEN 2 ELSE 1) * al.lattice.basis[k][j]

\* C11 as stated: the merged nanotwin has the N sites of the Al-substituted
\* supercell followed by the N sites of its mirror image, every element
\* twice, and its lattice vectors are those of the supercell with the one
\* along the mirror axis doubled.
C11_MergedVectorsDoubled ==
    sites.stage = "nanotwin" =>
        /\ MergedSitesAsStated
        /\ MergedCellDoubled
        /\ sites.st["nanotwin"].lattice.rebuilt = sites.st["al"].lattice.rebuilt

\* C11 amended: the merged nanotwin has the N sites of the Al-substituted
\* supercell followed by the N sites of its mirror image, every element
\* twice, and its cell has the supercell's lengths and angles with the length
\* along the mirror axis doubled; fccnanotwinned_structure.py doubles the
\* lattice vector itself, fccstructure_construction.py rebuilds the lattice
\* from the lengths and angles.
C11_MergedCellDoubled ==
    sites.stage = "nanotwin" =>
        /\ MergedSitesAsStated
        /\ MergedCellDoubled
        /\ sites.st["nanotwin"].lattice.rebuilt = (sites.script = "construction")

C11_Witness ==
    /\ sites.stage = "nanotwin"
    /\ sites.script = "construction"
    /\ Len(sites.st["nanotwin"].species) = 8
    /\ SiteCount(sites.st["nanotwin"], "Al") = 2
    /\ sites.st["nanotwin"].frac_coords[5] # sites.st["nanotwin"].frac_coords[1]

SubstitutionStages == {"fe", "cr", "co", "al"}
StageBuilt(stage) == sites.st[stage].species # <<>>
StageBefore(a, b) ==
    \E i, j \in 1..Len(StageNames) : i < j /\ StageNames[i] = a /\ StageNames[j] = b

\* C15: a substitution stage relabels only sites that were Ni when it
\* started, a site relabelled Fe, Cr or Co keeps that element in every later
\* structure, and the sites a stage draws are pairwise distinct and are the
\* ones it relabels.
C15_OnlyNiRelabelled ==
    /\ \A stage \in SubstitutionStages :
          StageBuilt(stage) =>
             LET old == sites.st[SourceStage(stage)].species
                 new == sites.st[stage].species
             IN  /\ Len(new) = Len(old)
                 /\ \A idx \in 1..Len(old) :
                       new[idx] # old[idx] => old[idx] = "Ni" /\ new[idx] = StageElement(stage)
    /\ \A a \in SubstitutionStages : \A b \in SubstitutionStages \cup {"mirror"} :
          (StageBuilt(a) /\ StageBuilt(b) /\ StageBefore(a, b)) =>
             \A idx \in 1..Len(sites.st[a].species) :
                sites.st[a].species[idx] \in {"Fe", "Cr", "Co"} =>
                    sites.st[b].species[idx] = sites.st[a].species[idx]
    /\ sites.stage \in SubstitutionStages =>
          LET old == sites.st[SourceStage(sites.stage)].species
              new == sites.st[sites.stage].species
              sub_indices == sites.sub_indices
          IN  /\ \A i, j \in 1..Len(sub_indices) : sub_indices[i] = sub_indices[j] => i = j
              /\ {idx \in 1..Len(old) : new[idx] # old[idx]}
                    = {sub_indices[i] : i \in 1..Len(sub_indices)}
              /\ \A i \in 1..Len(sub_indices) : old[sub_indices[i]] = "Ni"

C15_Witness ==
    /\ sites.stage = "cr"
    /\ Len(sites.sub_indices) = 2
    /\ SiteCount(sites.st["cr"], "Fe") = 2
    /\ SiteCount(sites.st["cr"], "Cr") = 2

\* 0 <= x < 1 and 0.5 <= x < 1
InUnitInterval(x) == (x.m = <<>> \/ ~x.neg) /\ FLess(Mag(x), FromInt(1))
InTopHalf(x) == InUnitInterval(x) /\ ~FLess(Mag(x), FPow2(-1))

\* C18: the mirror image has, for every site, the coordinate (-f) mod 1
\* along the mirror axis, which lies in [0, 1), and the other two
\* coordinates, the species, the lattice and the number of sites of the
\* Al-substituted supercell; building it leaves the Al-substituted supercell
\* as it was.
C18_MirrorWrapsIntoUnitInterval ==
    /\ [](StageBuilt("mirror") =>
            LET al == sites.st["al"]
                mi == sites.st["mirror"]
            IN  /\ mi.species = al.species
                /\ mi.lattice = al.lattice
                /\ Len(mi.frac_coords) = Len(al.frac_coords)
                /\ \A i \in 1..Len(al.frac_coords) : \A k \in 1..3 :
                      IF k = SitesAxisIdx
                      THEN /\ mi.frac_coords[i][k] = Mod1(Negate(al.frac_coords[i][k]))
                           /\ InUnitInterval(mi.frac_coords[i][k])
                      ELSE mi.frac_coords[i][k] = al.frac_coords[i][k])
    /\ [][sites.stage = "al" => sites'.st["al"] = sites.st["al"]]_vars

\* C19: every site of the merged nanotwin that comes from the mirrored copy
\* has its coordinate along the mirror axis in [0.5, 1).
C19_MirroredCopyInTopHalf ==
    sites.stage = "nanotwin" =>
        LET nt == sites.st["nanotwin"]
            N == Len(sites.st["mirror"].species)
        IN  \A i \in (N + 1)..(2 * N) : InTopHalf(nt.frac_coords[i][SitesAxisIdx])

\* x == y for floats: the two zeros are equal
SameFloat(x, y) == (x.m = <<>> /\ y.m = <<>>) \/ x = y

\* C20: no site of the mirrored and shifted copy has the three fractional
\* coordinates of a site of the base copy, and no two sites of the merged
\* nanotwin have the same three coordinates.
C20_NoCoincidentSites ==
    sites.stage = "nanotwin" =>
        LET nt == sites.st["nanotwin"]
        IN  \A i, j \in 1..Len(nt.frac_coords) :
               i # j => \E k \in 1..3 : ~SameFloat(nt.frac_coords[i][k], nt.frac_coords[j][k])

\* ------------------------------------------------------------------------
\* Order of a script run, and what its two display sections offer
\* (checked under Spec)
\* ------------------------------------------------------------------------

\* the steps of a run that execute a generation stage, or read the store for
\* the selector or the download buttons
StageOrDisplayStep ==
    \/ structs' # structs
    \/ inserted' # inserted
    \/ unique_file' # unique_file
    \/ (pc = "visualize" /\ pc' = "download")
    \/ (pc = "download" /\ pc' = "idle")

\* C22: a script run starts with the startup clean_database and with nothing
\* else: the Clear Database action, every generation stage and the two
\* display sections come after it.  When Clear Database is pressed the store
\* is emptied and the run ends at once with a rerun, a run of its own in
\* which no button is pressed, so no generation stage runs after the clear.
C22_CleanFirstClearReruns ==
    /\ [][pc = "startup" =>
            /\ db' = clean_database(db)
            /\ pc' = "clear_button"
            /\ UNCHANGED <<runLocals, display, cleared>>]_vars
    /\ [][pc' = "clear_button" => pc = "startup"]_vars
    /\ [][(pc' = "startup" /\ pc # "startup") => pc \in {"idle", "clear_button"}]_vars
    /\ [][StageOrDisplayStep => pc \in {"generate", "visualize", "download", "idle"}]_vars
    /\ [][(pc = "clear_button" /\ button = "clear") =>
            /\ db' = {}
            /\ pc' = "startup"
            /\ button' = "none"
            /\ UNCHANGED <<runLocals, display>>]_vars
    /\ [](pc = "generate" => cleared = 0)
    /\ [](pc = "generate" => button = "generate")

\* the rerun that follows a Clear Database which deleted rows has cleaned the
\* (empty) store again and reached the display sections
C22_Witness ==
    /\ cleared > 0
    /\ db = {}
    /\ button = "none"
    /\ pc = "download"
    /\ gens > 0

\* the records whose payload is neither NULL nor empty
NonEmptyRecords == {r \in db : ~r.data.null /\ r.data.bytes # ""}

\* the run has executed its visualization and download sections: it reached
\* its end without st.stop() and without an exception
DisplaySectionsRan ==
    /\ pc = "idle"
    /\ raised = "none"
    /\ ~(script = "nanotwinned" /\ InputsInvalid)

\* C23: at the end of a run that reached the display sections, the download
\* section offers one button per record with a non-empty payload, keyed by
\* the record's filename, and the visualization selector offers the
\* non-empty records whose format tag is CIF or XSF and no others; a CFG
\* record is never offered by the selector.
C23_DisplayOffers ==
    /\ DisplaySectionsRan =>
          /\ downloads = {r.filename : r \in NonEmptyRecords}
          /\ Cardinality(downloads) = Cardinality(NonEmptyRecords)
          /\ file_options =
                {r.filename : r \in {x \in NonEmptyRecords : x.format \in {"CIF", "XSF"}}}
    /\ \A r \in db : r.format = "CFG" => r.filename \notin file_options

\* fccstructure_construction.py has stored a CFG record, which is offered for
\* download beside an XSF record and is missing from the selector
C23_Witness ==
    /\ script = "construction"
    /\ DisplaySectionsRan
    /\ \E r \in db : r.format = "CFG" /\ r.filename = "ni_unit.cfg"
    /\ {"ni_unit.cfg", "ni_unit.xsf"} \subseteq downloads
    /\ "ni_unit.xsf" \in file_options
    /\ "ni_unit.cfg" \notin file_options

\* ------------------------------------------------------------------------
\* Names of the records of successive generation runs (checked under
\* SpecEmpty, the sessions that start from an empty store)
\* ------------------------------------------------------------------------

\* base.ext for c = 0, base_c.ext for c >= 1
Numbered(base, ext, c) ==
    IF c = 0 THEN base \o "." \o ext ELSE base \o "_" \o ToString(c) \o "." \o ext

\* the base name under which the current run asks to store the record r
BaseOf(r) ==
    splitext_root(StageFile(script, widgets.crystal_type,
                            StageNames[StageOfName(r.filename)], r.format))

\* the records of the artifact of r: same base name, same extension
SameArtifact(r) ==
    LET base == BaseOf(r)
        ext == lower(r.format)
        names == {Numbered(base, ext, c) : c \in 0..MaxGens}
    IN  {x \in db : x.filename \in names}

InsertedRows == {inserted[i] : i \in 1..Len(inserted)}

\* the current run is a generation that executed its last save
RunSucceeded == inserted # <<>> /\ ip = 0 /\ raised = "none"

\* generation runs before the current one that succeeded since the store was
\* empty, with the crystal type of the current one: each has left one record
\* of the last artifact of the pipeline
EarlierSuccessfulRuns ==
    LET last == Pipeline(script)[Len(Pipeline(script))]
        base == splitext_root(StageFile(script, widgets.crystal_type, last.stage, last.format))
        names == {Numbered(base, lower(last.format), c) : c \in 0..MaxGens}
    IN  Cardinality({x \in db \ InsertedRows : x.filename \in names})

\* C21 as stated: the j-th successful generation run since the store was
\* empty has stored every artifact under base.ext when j = 1 and under
\* base_(j-1).ext when j > 1.
C21_NumberedBySuccessfulRuns ==
    RunSucceeded =>
        \A r \in InsertedRows :
            r.filename = Numbered(BaseOf(r), lower(r.format), EarlierSuccessfulRuns)

\* no record is numbered k >= 1 unless the records 0 .. k - 1 of the same
\* base name and extension are stored too
GapFree ==
    LET stored == Filenames(db)
    IN  \A fn \in stored : \A k \in 1..MaxGens :
            LET root == splitext_root(fn)
                tail == "_" \o ToString(k)
                ext == SubSeq(fn, Len(root) + 2, Len(fn))
                base == SubSeq(root, 1, Len(root) - Len(tail))
            IN  EndsWith(root, tail) =>
                    \A i \in 0..(k - 1) : Numbered(base, ext, i) \in stored

\* C21: starting from an empty store, a generation run stores each artifact
\* under base.ext when no record of that artifact is stored and under
\* base_c.ext when c >= 1 of them are, one for each earlier run that got as
\* far as saving that artifact, whether it then succeeded or failed; and in
\* every state a stored base_k.ext (k >= 1) comes with base.ext and every
\* base_i.ext, 1 <= i < k.
C21_NumberedByEarlierRecords ==
    /\ \A r \in InsertedRows \cap db :
          r.filename =
              Numbered(BaseOf(r), lower(r.format), Cardinality(SameArtifact(r) \ InsertedRows))
    /\ GapFree

\* a run that failed at the Co stage was followed by a successful one, the
\* first successful run since the store was empty: it has stored its unit
\* cell under ni_unit_1.xsf and the artifacts of the Co stage on under their
\* plain names
C21_Witness ==
    /\ RunSucceeded
    /\ EarlierSuccessfulRuns = 0
    /\ gens = 2
    /\ \E r \in InsertedRows : r.filename = "ni_unit_1.xsf"
    /\ \E r \in InsertedRows : r.filename = "cocrfeni_super.xsf"
    /\ "ni_unit.xsf" \in Filenames(db)

\* ------------------------------------------------------------------------
\* SpecTwo: two sessions of fccnanotwinned_structure.py generate at the same
\* time against the same structures.db.  Each session has its own script
\* run, so pc, ip, widgets, structs, unique_file, raised and inserted hold
\* one value per session here.  A session is followed through the unit cell
\* and the supercell, whose four saves are enough for names to collide.
\* SQLite serialises the statements of the two connections, and save_to_db
\* commits each INSERT at once, so a step of a session is atomic.  The loop
\* of get_unique_filename is one step as well: rows are only added during
\* generation, so the name it returns is the first name free at the time of
\* its last SELECT whatever was inserted between its earlier SELECTs.
\* ------------------------------------------------------------------------

Sessions == {"A", "B"}

TwoSteps == StepsFrom("nanotwinned", <<"unit", "super">>, 1)

InitTwo ==
    /\ db = {}
    /\ call = NoCall
    /\ sites = NoSites
    /\ frame = NoFrame
    /\ script = "nanotwinned"
    /\ widgets \in [Sessions -> { Widgets("FCC", 1, 1, 1, 2500, 2500, DefaultOrientation, "Y"),
                                   Widgets("BCC", 2, 1, 1, 2222, 1112, DefaultOrientation, "X") }]
    /\ button = "generate"
    /\ pc = [s \in Sessions |-> "generate"]
    /\ ip = [s \in Sessions |-> 1]
    /\ gens = 0
    /\ structs = [s \in Sessions |-> NoStructures]
    /\ num_atoms = 0
    /\ num_sub = 0
    /\ unique_file = [s \in Sessions |-> ""]
    /\ raised = [s \in Sessions |-> "none"]
    /\ file_options = {}
    /\ downloads = {}
    /\ inserted = [s \in Sessions |-> <<>>]
    /\ swept = {}
    /\ cleared = 0

\* steps 1 and 2 of a session: unit cell, supercell
TwoBuild(s) ==
    /\ pc[s] = "generate"
    /\ TwoSteps[ip[s]].op = "build"
    /\ structs' = [structs EXCEPT ![s][TwoSteps[ip[s]].stage] =
                      IF TwoSteps[ip[s]].stage = "unit"
                      THEN UnitCell(script, widgets[s])
                      ELSE Supercell(structs[s]["unit"], widgets[s])]
    /\ ip' = [ip EXCEPT ![s] = ip[s] + 1]
    /\ UNCHANGED <<db, call, sites, frame, script, widgets, button, pc, gens, num_atoms, num_sub,
                   unique_file, raised, file_options, downloads, inserted, swept, cleared>>

\* x_file = get_unique_filename(conn, "<name>.<ext>", "<FORMAT>")
TwoGetName(s) ==
    /\ pc[s] = "generate"
    /\ TwoSteps[ip[s]].op = "name"
    /\ unique_file' = [unique_file EXCEPT ![s] =
                          get_unique_filename(db,
                              StageFile(script, widgets[s].crystal_type, TwoSteps[ip[s]].stage,
                                        TwoSteps[ip[s]].format),
                              TwoSteps[ip[s]].format)]
    /\ ip' = [ip EXCEPT ![s] = ip[s] + 1]
    /\ UNCHANGED <<db, call, sites, frame, script, widgets, button, pc, gens, structs, num_atoms,
                   num_sub, raised, file_options, downloads, inserted, swept, cleared>>

\* save_to_db(conn, x_file, "<FORMAT>", data): an exception is shown and
\* raised again by save_to_db and by the generation block, which ends the
\* session's run; after the last save the session leaves the model
TwoSave(s) ==
    /\ pc[s] = "generate"
    /\ TwoSteps[ip[s]].op = "save"
    /\ LET format == TwoSteps[ip[s]].format
           data == Serialize(structs[s][TwoSteps[ip[s]].stage], format)
           exc == save_to_db_raises(db, unique_file[s], format, data)
       IN  /\ db' = save_to_db(db, unique_file[s], format, data)
           /\ raised' = [raised EXCEPT ![s] = exc]
           /\ inserted' = [inserted EXCEPT ![s] =
                              IF exc = "none" THEN inserted[s] \o SeqOf(db' \ db) ELSE inserted[s]]
           /\ pc' = [pc EXCEPT ![s] =
                        IF exc # "none" THEN "idle"
                        ELSE IF ip[s] = Len(TwoSteps) THEN "visualize" ELSE "generate"]
           /\ ip' = [ip EXCEPT ![s] = IF exc = "none" /\ ip[s] < Len(TwoSteps) THEN ip[s] + 1 ELSE 0]
    /\ UNCHANGED <<call, sites, frame, script, widgets, button, gens, structs, num_atoms, num_sub,
                   unique_file, file_options, downloads, swept, cleared>>

NextTwo == \E s \in Sessions : TwoBuild(s) \/ TwoGetName(s) \/ TwoSave(s)

SpecTwo == InitTwo /\ [][NextTwo]_vars

\* ------------------------------------------------------------------------
\* Properties of two concurrent sessions (checked under SpecTwo)
\* ------------------------------------------------------------------------

\* the session is about to call save_to_db with the name it was given
AboutToSave(s) == pc[s] = "generate" /\ TwoSteps[ip[s]].op = "save"

RowsOf(s) == {inserted[s][i] : i \in 1..Len(inserted[s])}

\* C24: with the get_unique_filename and save_to_db steps of two sessions
\* interleaved, no two rows ever have the same filename, and no filename is
\* stored by both sessions.  When both sessions hold the same proposed
\* filename, the first save inserts its row; a save under a name that is
\* stored by then raises IntegrityError, ends that session's run, and leaves
\* the table, with the rows that session inserted earlier, as it was.
C24_ConcurrentSaves ==
    /\ [](\A r1, r2 \in db : r1.filename = r2.filename => r1.id = r2.id)
    /\ [](\A s, t \in Sessions : s # t => Filenames(RowsOf(s)) \cap Filenames(RowsOf(t)) = {})
    /\ [](\A s \in Sessions : RowsOf(s) \subseteq db)
    /\ [][\A s \in Sessions : (AboutToSave(s) /\ <<pc[s], ip[s]>>' # <<pc[s], ip[s]>>) =>
            IF unique_file[s] \in Filenames(db)
            THEN /\ raised'[s] = "IntegrityError"
                 /\ pc'[s] = "idle"
                 /\ db' = db
                 /\ inserted' = inserted
            ELSE /\ raised'[s] = "none"
                 /\ pc'[s] # "idle"
                 /\ Filenames(db') = Filenames(db) \cup {unique_file[s]}
                 /\ Len(inserted'[s]) = Len(inserted[s]) + 1]_vars
    /\ [][\A s, t \in Sessions :
            (/\ s # t
             /\ AboutToSave(s) /\ AboutToSave(t)
             /\ unique_file[s] = unique_file[t]
             /\ unique_file[s] \notin Filenames(db)
             /\ raised'[s] = "none" /\ <<pc[s], ip[s]>>' # <<pc[s], ip[s]>>) =>
                /\ AboutToSave(t)'
                /\ unique_file'[t] \in Filenames(RowsOf(s)')]_vars

\* both sessions were given ni_unit_fcc.xsf after each had stored a CIF
\* record; the save of one went through, the save of the other raised
\* IntegrityError and ended its run, and its CIF record is still stored
C24_Witness ==
    \E s, t \in Sessions :
        /\ s # t
        /\ raised[s] = "IntegrityError"
        /\ pc[s] = "idle"
        /\ unique_file[s] = "ni_unit_fcc.xsf"
        /\ unique_file[s] \in Filenames(RowsOf(t))
        /\ Len(inserted[s]) = 1
        /\ RowsOf(s) \subseteq db
        /\ raised[t] = "none"

====
